---- MODULE Spec2Model ----
(***************************************************************************)
(* Model of epic-manager's orchestration engine:                           *)
(*   - EpicPlan (models.py): phase order and issues of a phase,            *)
(*   - ClaudeSessionManager.run_parallel_* (claude_automation.py): the     *)
(*     semaphore-limited gather of agent sessions,                         *)
(*   - EpicOrchestrator.start_development / run_complete_epic              *)
(*     (orchestrator.py): the phased coordinator,                          *)
(*   - ReviewMonitor.monitor_epic_reviews (review_monitor.py): the poll    *)
(*     loop that dispatches review-fix sessions.                           *)
(* Everything runs on one asyncio event loop: an action is the code that   *)
(* runs between two suspension points (an await on gather, on an agent     *)
(* session, or on asyncio.sleep).                                          *)
(***************************************************************************)
EXTENDS Integers, Sequences, FiniteSets, TLC

(***************************************************************************)
(* Bounds of the model.                                                    *)
(***************************************************************************)
\* Constants.MAX_CONCURRENT_SESSIONS is read from the environment
\* (EPIC_MGR_MAX_CONCURRENT); the model draws it from 1..MaxSessionsLimit.
MaxSessionsLimit == 2
\* Constants.MAX_FIX_ATTEMPTS is read from the environment
\* (EPIC_MGR_MAX_FIX_ATTEMPTS); the model draws it from 1..MaxAttemptsLimit.
MaxAttemptsLimit == 3
\* The runs of run_complete_epic are explored with MAX_FIX_ATTEMPTS up to this
\* limit (the monitor alone is explored up to MaxAttemptsLimit).
EpicAttemptsLimit == 1
\* Largest reviewer comment count the hosting API reports in the model.
MaxComments == 1
\* Most commits of its own an issue branch carries in the model.
MaxCommits == 2
\* Most commits beyond main the dependency's branch (a stacked base) carries.
MaxDepCommits == 1
\* Most phases of a plan (phase_1 .. phase_<MaxPhases>) the plan model is asked about.
MaxPhases == 11

None == 0

(***************************************************************************)
(* Plans.  An issue is [number, dependencies]; parallelization maps the    *)
(* phase key n (the name "phase_n") to the list of its issue numbers.      *)
(***************************************************************************)
Issue(n, deps) == [number |-> n, dependencies |-> deps]

\* The plan of the documented end-to-end example: 102 and 103 on top of 101.
PlanFanOut ==
    [issues |-> << Issue(101, {}), Issue(102, {101}), Issue(103, {101}) >>,
     parallelization |-> (1 :> <<101>> @@ 2 :> <<102, 103>>)]

\* A stack 101 <- 102, one issue per phase.
PlanChain ==
    [issues |-> << Issue(101, {}), Issue(102, {101}) >>,
     parallelization |-> (1 :> <<101>> @@ 2 :> <<102>>)]

\* Two independent issues in one phase.
PlanFlat ==
    [issues |-> << Issue(101, {}), Issue(102, {}) >>,
     parallelization |-> (1 :> <<101, 102>>)]

\* Two independent issues in the first phase, 103 on top of 101 in the second.
PlanJoin ==
    [issues |-> << Issue(101, {}), Issue(102, {}), Issue(103, {101}) >>,
     parallelization |-> (1 :> <<101, 102>> @@ 2 :> <<103>>)]

Plans == {PlanFanOut, PlanJoin, PlanChain, PlanFlat}

\* The two-issue plans.
SmallPlans == {PlanChain, PlanFlat}

Range(s) == {s[k] : k \in DOMAIN s}

IssueNumbers(p) == {p.issues[k].number : k \in DOMAIN p.issues}

IssueByNumber(p, n) == CHOOSE i \in Range(p.issues) : i.number = n

\* The change-request id the hosting service gives issue n's branch issue-n.
PrOf(n) == n + 1000

(***************************************************************************)
(* EpicPlan.get_phase_order: sorted(self.parallelization.keys()), the      *)
(* string order of the names "phase_<n>".                                  *)
(***************************************************************************)
RECURSIVE Digits(_)
Digits(n) == IF n < 10 THEN <<n>> ELSE Append(Digits(n \div 10), n % 10)

\* Python's str.__lt__ on two digit strings (the common prefix "phase_" drops out).
StrLess(s, t) ==
    \/ \E k \in 1..Len(s) :
          /\ k <= Len(t)
          /\ \A j \in 1..(k - 1) : s[j] = t[j]
          /\ s[k] < t[k]
    \/ /\ Len(s) < Len(t)
       /\ \A j \in 1..Len(s) : s[j] = t[j]

PhaseNameLess(a, b) == StrLess(Digits(a), Digits(b))

RECURSIVE SortedKeys(_)
SortedKeys(keys) ==
    IF keys = {} THEN <<>>
    ELSE LET first == CHOOSE a \in keys : \A b \in keys \ {a} : PhaseNameLess(a, b)
         IN  <<first>> \o SortedKeys(keys \ {first})

get_phase_order(p) == SortedKeys(DOMAIN p.parallelization)

\* EpicPlan.get_issues_for_phase: the issues of plan.issues, in that order,
\* whose number is in the phase's list.
get_issues_for_phase(p, phase_name) ==
    LET issue_numbers == IF phase_name \in DOMAIN p.parallelization
                         THEN Range(p.parallelization[phase_name]) ELSE {}
    IN  SelectSeq(p.issues, LAMBDA i : i.number \in issue_numbers)

\* Position of issue n's phase in the execution order (0: in no phase).
PhasePos(p, n) ==
    LET order == get_phase_order(p)
        hits == {k \in DOMAIN order : n \in Range(p.parallelization[order[k]])}
    IN  IF hits = {} THEN 0 ELSE CHOOSE k \in hits : \A j \in hits : k <= j

(***************************************************************************)
(* State.                                                                  *)
(***************************************************************************)
VARIABLES
    \* configuration (config.py, class Constants)
    MAX_CONCURRENT_SESSIONS,
    MAX_FIX_ATTEMPTS,
    sdk_installed,      \* claude_agent_sdk could be imported (ClaudeSDKClient is not None)
    \* inputs of the run
    plan,               \* the EpicPlan
    worktrees,          \* keys of the worktrees map: issues that have a workspace
    existing_prs,       \* start_development's existing_prs: issue -> pr
    \* hosting service
    host_prs,           \* issues whose branch issue-n has an open change request
    \* run_complete_epic
    epic_pc,
    \* start_development
    dev_pc,
    phase_idx,          \* index into get_phase_order(plan) of the loop
    results,            \* issue -> WorkflowResult
    \* run_parallel_tdd_workflows (one call per phase)
    phase_tasks,        \* the issue numbers handed to gather, in order
    tdd_state,          \* per task: pending | running | done | raised
    tdd_semaphore,      \* asyncio.Semaphore value
    phase_results,      \* per task: its WorkflowResult, None until it returns
    \* history of the agent sessions of start_development
    dispatched,         \* issues handed to run_parallel_tdd_workflows
    launched,           \* issues whose launch_tdd_workflow session began
    session_result,     \* issue -> success, for the sessions that returned
    \* plan.issues[].pr_number as the monitor sees and sets it
    issue_pr,
    \* monitor_epic_reviews
    mon_pc,
    addressed,
    fix_attempts,       \* pr -> attempt count
    prs_needing_fixes,  \* list of <<issue, pr>> of this poll
    \* run_parallel_review_fixers (one call per poll with fixes)
    fix_state,
    fix_semaphore,
    fix_results,
    \* history of the monitor's queries
    observed,           \* pr -> outcome of its _count_coderabbit_comments query in the last poll
    positive_polls      \* pr -> polls that observed a positive count (saturating)

VARIABLES
    repo,          \* the git state of one issue's worktree path and branch issue-N
    dep_commits,   \* commits beyond main on the dependency's branch
    issue_base,    \* issue.base_branch, which every call for the issue is made with
    ws_log         \* the last two create_or_reuse_worktree calls (history)

ws_vars == <<repo, dep_commits, issue_base, ws_log>>

VARIABLES
    chains,        \* what get_dependency_chains returned for plan
    phase_order,   \* what get_phase_order returned for plan
    pm_called      \* the plan-model methods called so far

pm_vars == <<chains, phase_order, pm_called>>

config_vars == <<MAX_CONCURRENT_SESSIONS, MAX_FIX_ATTEMPTS, sdk_installed>>
input_vars == <<plan, worktrees, existing_prs>>
dev_vars == <<dev_pc, phase_idx, results, phase_tasks, tdd_state, tdd_semaphore,
              phase_results, dispatched, launched, session_result>>
mon_vars == <<issue_pr, mon_pc, addressed, fix_attempts, prs_needing_fixes,
              fix_state, fix_semaphore, fix_results, observed, positive_polls>>
VARIABLES
    base_log,       \* commits "git log" shows in a fresh worktree: those of its base reference
    new_commits,    \* commits the agent session made in the worktree
    status_files,   \* the files "git status --short" lists in the worktree
    launch_pc,      \* launch_tdd_workflow: "session" | "returned"
    launch_result   \* the WorkflowResult it returned, with what the validation did

core_vars == <<config_vars, input_vars, host_prs, epic_pc, dev_vars, mon_vars, ws_vars, pm_vars>>

val_vars == <<base_log, new_commits, status_files, launch_pc, launch_result>>

VARIABLES
    host_drafts     \* issues whose open change request is a draft on the hosting service

draft_vars == <<host_drafts>>

VARIABLES
    plan_file,      \* the plan document epic-<n>-plan.json in state_dir
    state_file,     \* the state document epic-<n>.json in state_dir
    cleaned_up      \* the issues whose worktree the cleanup command removed (history)

store_vars == <<plan_file, state_file, cleaned_up>>

VARIABLES
    gt_call,        \* the last create_issue_worktree call: what gt did, what the call returned
    status_call,    \* the last update_issue_status call: its arguments, the document before, the result
    stack_plan,     \* issue -> dependencies and base_branch of the plan from_json returned
    stack_idx,      \* create_worktrees_for_plan: how many issues of plan.issues the loop has done
    stack_worktrees \* issue -> the reference its worktree was created from

stack_vars == <<stack_plan, stack_idx, stack_worktrees>>

VARIABLES
    pr_base,        \* issue -> baseRefName of its change request on the hosting service
    verify_call     \* the last verify_and_fix_pr_base_branches call: result, failures, bases left

verify_vars == <<pr_base, verify_call>>

VARIABLES
    disc_pc,        \* monitor_epic_by_discovery: "start" | "poll" | "sleep" | "returned"
    disc_prs,       \* its issue_to_pr
    disc_addressed, \* its addressed
    disc_reported,  \* pr -> how often "CodeRabbit comments detected" was printed for it (history)
    disc_seen,      \* the requests a poll observed with a reviewer comment (history)
    disc_poll_count \* its poll_count

disc_vars == <<disc_pc, disc_prs, disc_addressed, disc_reported, disc_seen, disc_poll_count>>

call_vars == <<gt_call, status_call, stack_vars, verify_vars, disc_vars>>

\* The state of the parts that are followed on their own.
ext_vars == <<val_vars, draft_vars, store_vars, call_vars>>

vars == <<core_vars, ext_vars>>

(***************************************************************************)
(* Helpers.                                                                *)
(***************************************************************************)
\* d[k] = v on a Python dict modelled as a function.
DictSet(d, k, v) == [x \in DOMAIN d \cup {k} |-> IF x = k THEN v ELSE d[x]]

\* d.get(k, default)
DictGet(d, k, default) == IF k \in DOMAIN d THEN d[k] ELSE default

EmptyDict == [x \in {} |-> None]

WorkflowResult(issue_number, success, pr_number) ==
    [issue_number |-> issue_number, success |-> success, pr_number |-> pr_number]

Indices(states, st) == {k \in DOMAIN states : states[k] = st}

\* The event loop runs tasks: run_complete_epic has not returned to
\* asyncio.run ("none": the coroutine at hand was called without it).
LoopRunning == epic_pc \in {"none", "developing"}

(***************************************************************************)
(* asyncio.Semaphore and asyncio.gather as run_parallel_tdd_workflows and  *)
(* run_parallel_review_fixers use them.                                    *)
(***************************************************************************)
\* Faulty variant of SemaphoreLocked: acquire() never blocks.
SemaphoreNeverLocked(value) == FALSE

\* asyncio.Semaphore.locked(): acquire() blocks while the value is 0.
SemaphoreLocked(value) == value = 0

\* asyncio.gather(*tasks) returns once every task has returned.
GatherDone(states) == \A k \in DOMAIN states : states[k] = "done"

\* asyncio.gather(*tasks) without return_exceptions raises the first exception.
GatherRaised(states) == \E k \in DOMAIN states : states[k] = "raised"

(***************************************************************************)
(* ClaudeSessionManager.run_parallel_tdd_workflows: the tasks of a phase.  *)
(***************************************************************************)
\* run_with_limit acquires the semaphore and enters launch_tdd_workflow, which
\* raises ImportError at once when the SDK is missing (the semaphore is released
\* by the async with).
TddStart(k) ==
    /\ LoopRunning
    /\ k \in DOMAIN tdd_state
    /\ tdd_state[k] = "pending"
    /\ ~SemaphoreLocked(tdd_semaphore)
    /\ IF sdk_installed
       THEN /\ tdd_state' = [tdd_state EXCEPT ![k] = "running"]
            /\ tdd_semaphore' = tdd_semaphore - 1
            /\ launched' = launched \cup {phase_tasks[k]}
       ELSE /\ tdd_state' = [tdd_state EXCEPT ![k] = "raised"]
            /\ UNCHANGED <<tdd_semaphore, launched>>
    /\ UNCHANGED <<config_vars, ext_vars, ws_vars, pm_vars, input_vars, host_prs, epic_pc, mon_vars,
                   dev_pc, phase_idx, results, phase_tasks, phase_results,
                   dispatched, session_result>>

\* launch_tdd_workflow returns its WorkflowResult (success after validation, or
\* failure: validation failed or an exception was caught); the semaphore is
\* released.  pr_number is the change request found for branch issue-n, if any.
TddFinish(k, success) ==
    /\ LoopRunning
    /\ k \in DOMAIN tdd_state
    /\ tdd_state[k] = "running"
    /\ LET n == phase_tasks[k]
           pr == IF n \in host_prs THEN PrOf(n) ELSE None
       IN  /\ phase_results' = [phase_results EXCEPT ![k] = WorkflowResult(n, success, pr)]
           /\ session_result' = DictSet(session_result, n, success)
    /\ tdd_state' = [tdd_state EXCEPT ![k] = "done"]
    /\ tdd_semaphore' = tdd_semaphore + 1
    /\ UNCHANGED <<config_vars, ext_vars, ws_vars, pm_vars, input_vars, host_prs, epic_pc, mon_vars,
                   dev_pc, phase_idx, results, phase_tasks, dispatched, launched>>

(***************************************************************************)
(* EpicOrchestrator.start_development.                                     *)
(***************************************************************************)
\* The loop body up to the await: filter the phase's issues, record the skipped
\* ones, and hand the rest to run_parallel_tdd_workflows.
SkippedResults(res, issues_in_phase) ==
    LET skipped == {i.number : i \in {x \in Range(issues_in_phase) :
                        x.number \in worktrees /\ x.number \in DOMAIN existing_prs}}
    IN  [n \in DOMAIN res \cup skipped |->
            IF n \in skipped THEN WorkflowResult(n, TRUE, existing_prs[n]) ELSE res[n]]

\* Faulty variant of PhaseTasks: without "if issue.number in existing_prs".
PhaseTasksWithExisting(issues_in_phase) ==
    LET todo == SelectSeq(issues_in_phase, LAMBDA i : i.number \in worktrees)
    IN  [k \in DOMAIN todo |-> todo[k].number]

\* phase_tasks: the issues with a worktree and without a change request.
PhaseTasks(issues_in_phase) ==
    LET todo == SelectSeq(issues_in_phase,
                    LAMBDA i : i.number \in worktrees /\ i.number \notin DOMAIN existing_prs)
    IN  [k \in DOMAIN todo |-> todo[k].number]

StartPhase ==
    /\ LoopRunning
    /\ dev_pc = "loop"
    /\ phase_idx <= Len(get_phase_order(plan))
    /\ LET phase_name == get_phase_order(plan)[phase_idx]
           issues_in_phase == get_issues_for_phase(plan, phase_name)
           tasks == PhaseTasks(issues_in_phase)
       IN  /\ results' = SkippedResults(results, issues_in_phase)
           /\ IF tasks = <<>>
              THEN \* "All issues in phase already complete": continue
                   /\ phase_idx' = phase_idx + 1
                   /\ UNCHANGED <<dev_pc, phase_tasks, tdd_state, tdd_semaphore,
                                  phase_results, dispatched>>
              ELSE /\ phase_tasks' = tasks
                   /\ tdd_state' = [k \in DOMAIN tasks |-> "pending"]
                   /\ tdd_semaphore' = MAX_CONCURRENT_SESSIONS
                   /\ phase_results' = [k \in DOMAIN tasks |-> None]
                   /\ dispatched' = dispatched \cup Range(tasks)
                   /\ dev_pc' = "gather"
                   /\ UNCHANGED phase_idx
    /\ UNCHANGED <<config_vars, ext_vars, ws_vars, pm_vars, input_vars, host_prs, epic_pc, mon_vars,
                   launched, session_result>>

\* Faulty variant of RecordResults: a failed result does not stop the loop.
RECURSIVE RecordResultsNoStop(_, _, _)
RecordResultsNoStop(res, prs, k) ==
    IF k > Len(prs) THEN [results |-> res, failed |-> FALSE]
    ELSE RecordResultsNoStop(DictSet(res, prs[k].issue_number, prs[k]), prs, k + 1)

\* "for result in phase_results": record each result; the first failed one returns.
RECURSIVE RecordResults(_, _, _)
RecordResults(res, prs, k) ==
    IF k > Len(prs) THEN [results |-> res, failed |-> FALSE]
    ELSE LET r == prs[k]
             res2 == DictSet(res, r.issue_number, r)
         IN  IF ~r.success THEN [results |-> res2, failed |-> TRUE]
             ELSE RecordResults(res2, prs, k + 1)

\* Faulty variant of PhaseReturns: the phase is left as soon as one session has
\* returned (asyncio.wait with FIRST_COMPLETED instead of gather).
PhaseReturnsOnFirstResult ==
    /\ LoopRunning
    /\ dev_pc = "gather"
    /\ Indices(tdd_state, "done") # {}
    /\ LET finished == SelectSeq([k \in DOMAIN tdd_state |-> k],
                                 LAMBDA k : tdd_state[k] = "done")
           rec == RecordResults(results, [k \in DOMAIN finished |-> phase_results[finished[k]]], 1)
       IN  /\ results' = rec.results
           /\ IF rec.failed
              THEN /\ dev_pc' = "returned"
                   /\ UNCHANGED phase_idx
              ELSE /\ dev_pc' = "loop"
                   /\ phase_idx' = phase_idx + 1
    /\ UNCHANGED <<config_vars, ext_vars, ws_vars, pm_vars, input_vars, host_prs, epic_pc, mon_vars,
                   phase_tasks, tdd_state, tdd_semaphore, phase_results,
                   dispatched, launched, session_result>>

\* The await on run_parallel_tdd_workflows returns the phase's results.
PhaseReturns ==
    /\ LoopRunning
    /\ dev_pc = "gather"
    /\ GatherDone(tdd_state)
    /\ LET rec == RecordResults(results, phase_results, 1)
       IN  /\ results' = rec.results
           /\ IF rec.failed
              THEN /\ dev_pc' = "returned"      \* Stop on phase failure
                   /\ UNCHANGED phase_idx
              ELSE /\ dev_pc' = "loop"
                   /\ phase_idx' = phase_idx + 1
    /\ UNCHANGED <<config_vars, ext_vars, ws_vars, pm_vars, input_vars, host_prs, epic_pc, mon_vars,
                   phase_tasks, tdd_state, tdd_semaphore, phase_results,
                   dispatched, launched, session_result>>

\* The await raises the ImportError of a task: start_development raises.
PhaseRaises ==
    /\ LoopRunning
    /\ dev_pc = "gather"
    /\ GatherRaised(tdd_state)
    /\ dev_pc' = "raised"
    /\ UNCHANGED <<config_vars, ext_vars, ws_vars, pm_vars, input_vars, host_prs, epic_pc, mon_vars,
                   phase_idx, results, phase_tasks, tdd_state, tdd_semaphore,
                   phase_results, dispatched, launched, session_result>>

\* The loop is over: "return results".
DevReturns ==
    /\ LoopRunning
    /\ dev_pc = "loop"
    /\ phase_idx > Len(get_phase_order(plan))
    /\ dev_pc' = "returned"
    /\ UNCHANGED <<config_vars, ext_vars, ws_vars, pm_vars, input_vars, host_prs, epic_pc, mon_vars,
                   phase_idx, results, phase_tasks, tdd_state, tdd_semaphore,
                   phase_results, dispatched, launched, session_result>>


(***************************************************************************)
(* The hosting service.                                                    *)
(***************************************************************************)
\* A change request is opened for branch issue-n: by the agent session working
\* on issue n (its workflow submits the branch), or by anybody else.
HostOpenPR(n) ==
    /\ LoopRunning
    /\ n \in IssueNumbers(plan)
    /\ n \notin host_prs
    /\ host_prs' = host_prs \cup {n}
    /\ UNCHANGED <<config_vars, ext_vars, ws_vars, pm_vars, input_vars, epic_pc, dev_vars, mon_vars>>

\* What "gh pr view <pr> --json comments" can answer: a failure (non-zero exit,
\* unparsable output, missing tool) or the reviewer's comments.
QueryOutcomes ==
    {[ok |-> FALSE, comments |-> 0]} \cup {[ok |-> TRUE, comments |-> c] : c \in 0..MaxComments}

(***************************************************************************)
(* ReviewMonitor.                                                          *)
(***************************************************************************)
\* _count_coderabbit_comments: "Number of CodeRabbit comments (0 if none or error)".
_count_coderabbit_comments(outcome) ==
    IF ~outcome.ok THEN 0 ELSE outcome.comments

\* _discover_epic_prs: issue -> pr for the open change requests of the epic's
\* issues; {} when a gh call fails.
_discover_epic_prs(gh_ok) ==
    IF gh_ok THEN [n \in host_prs \cap IssueNumbers(plan) |-> PrOf(n)] ELSE EmptyDict

\* Phase 0: "if not issue.pr_number: issue.pr_number = discovered_pr".
Discovered(prs, issue_to_pr) ==
    [n \in DOMAIN prs |->
        IF n \in DOMAIN issue_to_pr /\ prs[n] = None THEN issue_to_pr[n] ELSE prs[n]]

\* prs_to_monitor = [issue.pr_number for issue in plan.issues if issue.pr_number]
PrsToMonitor(prs) ==
    LET tracked == SelectSeq(plan.issues, LAMBDA i : prs[i.number] # None)
    IN  [k \in DOMAIN tracked |-> prs[tracked[k].number]]

\* Faulty variant of MaxAttemptsReached: > instead of >=.
MaxAttemptsExceeded(attempts, pr) == DictGet(attempts, pr, 0) > MAX_FIX_ATTEMPTS

\* Phase 1 visits an issue's change request unless it is clean or at max attempts.
MaxAttemptsReached(attempts, pr) == DictGet(attempts, pr, 0) >= MAX_FIX_ATTEMPTS

\* Faulty variant of Checked: without "if pr_num in addressed: continue".
CheckedAlsoClean(prs, clean, attempts) ==
    {n \in DOMAIN prs : /\ prs[n] # None
                        /\ ~MaxAttemptsReached(attempts, prs[n])}

Checked(prs, clean, attempts) ==
    {n \in DOMAIN prs : /\ prs[n] # None
                        /\ prs[n] \notin clean
                        /\ ~MaxAttemptsReached(attempts, prs[n])}

\* Phase 1: the requests that go to a fix session, in plan order.
NeedingFixes(prs, checked, q) ==
    LET need == SelectSeq(plan.issues, LAMBDA i :
                    /\ i.number \in checked
                    /\ _count_coderabbit_comments(q[i.number]) > 0
                    /\ i.number \in worktrees)
    IN  [k \in DOMAIN need |-> <<need[k].number, prs[need[k].number]>>]

\* Phase 1: "0 comments = truly addressed!"
NewlyAddressed(prs, checked, q) ==
    {prs[n] : n \in {m \in checked : ~(_count_coderabbit_comments(q[m]) > 0)}}

\* Faulty variant of CompletionCheck: > instead of >= in the first test.
CompletionCheckStrict(clean, attempts, prs_to_monitor) ==
    LET still_working == Cardinality({k \in DOMAIN prs_to_monitor :
                            /\ prs_to_monitor[k] \notin clean
                            /\ DictGet(attempts, prs_to_monitor[k], 0) < MAX_FIX_ATTEMPTS})
    IN  IF Cardinality(clean) > Len(prs_to_monitor) THEN "all_clean"
        ELSE IF still_working = 0 THEN "max_attempts"
        ELSE "sleep"

\* Phase 3: where the loop goes after a poll.
CompletionCheck(clean, attempts, prs_to_monitor) ==
    LET still_working == Cardinality({k \in DOMAIN prs_to_monitor :
                            /\ prs_to_monitor[k] \notin clean
                            /\ DictGet(attempts, prs_to_monitor[k], 0) < MAX_FIX_ATTEMPTS})
    IN  IF Cardinality(clean) >= Len(prs_to_monitor) THEN "all_clean"
        ELSE IF still_working = 0 THEN "max_attempts"
        ELSE "sleep"

Saturate(n, cap) == IF n > cap THEN cap ELSE n

\* One poll up to its first await: discovery, the scan, and then either the
\* dispatch of the fixes (await gather) or the completion check (break, or
\* await sleep).
MonPoll ==
    /\ LoopRunning
    /\ mon_pc = "poll"
    /\ \E gh_ok \in BOOLEAN :
        LET prs == Discovered(issue_pr, _discover_epic_prs(gh_ok))
            prs_to_monitor == PrsToMonitor(prs)
            checked == Checked(prs, addressed, fix_attempts)
        IN  /\ issue_pr' = prs
            /\ IF prs_to_monitor = <<>>
               THEN \* "No PRs found for this epic": sleep and continue
                    /\ mon_pc' = "sleep"
                    /\ observed' = EmptyDict
                    /\ UNCHANGED <<addressed, prs_needing_fixes, fix_state, fix_semaphore,
                                   fix_results, positive_polls>>
               ELSE \E q \in [checked -> QueryOutcomes] :
                    LET fixes == NeedingFixes(prs, checked, q)
                        clean == addressed \cup NewlyAddressed(prs, checked, q)
                    IN  /\ addressed' = clean
                        /\ prs_needing_fixes' = fixes
                        /\ observed' = [pr \in {prs[n] : n \in checked} |->
                                q[CHOOSE n \in checked : prs[n] = pr]]
                        /\ positive_polls' =
                             [pr \in DOMAIN positive_polls \cup {prs[n] : n \in checked} |->
                                LET old == DictGet(positive_polls, pr, 0)
                                IN  IF \E n \in checked :
                                        prs[n] = pr /\ _count_coderabbit_comments(q[n]) > 0
                                    THEN Saturate(old + 1, MAX_FIX_ATTEMPTS + 1)
                                    ELSE old]
                        /\ IF fixes # <<>>
                           THEN /\ fix_state' = [k \in DOMAIN fixes |-> "pending"]
                                /\ fix_semaphore' = MAX_CONCURRENT_SESSIONS
                                /\ fix_results' = [k \in DOMAIN fixes |-> None]
                                /\ mon_pc' = "fixing"
                           ELSE /\ mon_pc' = CompletionCheck(clean, fix_attempts, prs_to_monitor)
                                /\ UNCHANGED <<fix_state, fix_semaphore, fix_results>>
    /\ UNCHANGED <<config_vars, ext_vars, ws_vars, pm_vars, input_vars, host_prs, epic_pc, dev_vars, fix_attempts>>

\* run_parallel_review_fixers: run_with_limit acquires the semaphore and enters
\* launch_review_fixer (ImportError at once when the SDK is missing).
FixStart(k) ==
    /\ LoopRunning
    /\ k \in DOMAIN fix_state
    /\ fix_state[k] = "pending"
    /\ ~SemaphoreLocked(fix_semaphore)
    /\ IF sdk_installed
       THEN /\ fix_state' = [fix_state EXCEPT ![k] = "running"]
            /\ fix_semaphore' = fix_semaphore - 1
       ELSE /\ fix_state' = [fix_state EXCEPT ![k] = "raised"]
            /\ UNCHANGED fix_semaphore
    /\ UNCHANGED <<config_vars, ext_vars, ws_vars, pm_vars, input_vars, host_prs, epic_pc, dev_vars,
                   issue_pr, mon_pc, addressed, fix_attempts, prs_needing_fixes,
                   fix_results, observed, positive_polls>>

\* launch_review_fixer returns WorkflowResult(issue_number=pr_number, success).
FixFinish(k, success) ==
    /\ LoopRunning
    /\ k \in DOMAIN fix_state
    /\ fix_state[k] = "running"
    /\ fix_state' = [fix_state EXCEPT ![k] = "done"]
    /\ fix_results' = [fix_results EXCEPT
                          ![k] = WorkflowResult(prs_needing_fixes[k][2], success, None)]
    /\ fix_semaphore' = fix_semaphore + 1
    /\ UNCHANGED <<config_vars, ext_vars, ws_vars, pm_vars, input_vars, host_prs, epic_pc, dev_vars,
                   issue_pr, mon_pc, addressed, fix_attempts, prs_needing_fixes,
                   observed, positive_polls>>

\* Faulty variant of CountAttempts: only a successful fix counts as an attempt.
RECURSIVE CountAttemptsOnSuccess(_, _, _)
CountAttemptsOnSuccess(attempts, fixes, k) ==
    IF k > Len(fixes) THEN attempts
    ELSE LET pr_num == fixes[k][2]
             inc == IF fix_results[k].success THEN 1 ELSE 0
         IN  CountAttemptsOnSuccess(DictSet(attempts, pr_num, DictGet(attempts, pr_num, 0) + inc),
                                    fixes, k + 1)

\* "for (issue_num, pr_num), result in zip(prs_needing_fixes, results)":
\* the attempt counter goes up whatever the result.
RECURSIVE CountAttempts(_, _, _)
CountAttempts(attempts, fixes, k) ==
    IF k > Len(fixes) THEN attempts
    ELSE LET pr_num == fixes[k][2]
         IN  CountAttempts(DictSet(attempts, pr_num, DictGet(attempts, pr_num, 0) + 1),
                           fixes, k + 1)

\* The await on run_parallel_review_fixers returns: count the attempts, then
\* the completion check.
MonFixesReturn ==
    /\ LoopRunning
    /\ mon_pc = "fixing"
    /\ GatherDone(fix_state)
    /\ LET attempts == CountAttempts(fix_attempts, prs_needing_fixes, 1)
       IN  /\ fix_attempts' = attempts
           /\ mon_pc' = CompletionCheck(addressed, attempts, PrsToMonitor(issue_pr))
    /\ UNCHANGED <<config_vars, ext_vars, ws_vars, pm_vars, input_vars, host_prs, epic_pc, dev_vars,
                   issue_pr, addressed, prs_needing_fixes, fix_state, fix_semaphore,
                   fix_results, observed, positive_polls>>

\* The await raises a task's ImportError: monitor_epic_reviews raises (and
\* _start_review_monitor, or the CLI's run_monitor, reports the error).
MonFixesRaise ==
    /\ LoopRunning
    /\ mon_pc = "fixing"
    /\ GatherRaised(fix_state)
    /\ mon_pc' = "failed"
    /\ UNCHANGED <<config_vars, ext_vars, ws_vars, pm_vars, input_vars, host_prs, epic_pc, dev_vars,
                   issue_pr, addressed, fix_attempts, prs_needing_fixes, fix_state,
                   fix_semaphore, fix_results, observed, positive_polls>>

\* Faulty variant of MonWake: the loop ends after the sleep.
MonWakeStops ==
    /\ LoopRunning
    /\ mon_pc = "sleep"
    /\ mon_pc' = "all_clean"
    /\ UNCHANGED <<config_vars, ext_vars, ws_vars, pm_vars, input_vars, host_prs, epic_pc, dev_vars,
                   issue_pr, addressed, fix_attempts, prs_needing_fixes, fix_state,
                   fix_semaphore, fix_results, observed, positive_polls>>

\* asyncio.sleep(self.poll_interval) is over: the next poll.
MonWake ==
    /\ LoopRunning
    /\ mon_pc = "sleep"
    /\ mon_pc' = "poll"
    /\ UNCHANGED <<config_vars, ext_vars, ws_vars, pm_vars, input_vars, host_prs, epic_pc, dev_vars,
                   issue_pr, addressed, fix_attempts, prs_needing_fixes, fix_state,
                   fix_semaphore, fix_results, observed, positive_polls>>


(***************************************************************************)
(* The persisted documents of an epic: EpicPlan.save, EpicPlan.from_json   *)
(* and EpicOrchestrator.load_plan.  A document is absent, or holds text    *)
(* that is not JSON, or the JSON value null, or a JSON object with some of *)
(* the top-level fields; issues maps an issue number to what the document  *)
(* records for it.                                                         *)
(***************************************************************************)
PlanFields == {"epic", "issues", "parallelization"}

IssueEntry(status, worktree_path, pr_number) ==
    [status |-> status, worktree_path |-> worktree_path, pr_number |-> pr_number]

Document(kind, fields, issues) == [kind |-> kind, fields |-> fields, issues |-> issues]

AbsentDoc == Document("absent", {}, EmptyDict)

\* EpicPlan.save: the issues' __dict__ as the plan object holds them.
\* worktree_path is whether a path is recorded; no code of run_complete_epic
\* assigns issue.status, which stays what the plan was created with.
save(p, wt, prs) ==
    Document("object", PlanFields,
             [n \in IssueNumbers(p) |-> IssueEntry("pending", n \in wt, prs[n])])

\* EpicPlan.from_json on the document's text: the plan, or the exception raised.
from_json(doc) ==
    IF doc.kind = "invalid_json" THEN [result |-> "JSONDecodeError", issues |-> EmptyDict]
    ELSE IF doc.kind = "null" THEN [result |-> "TypeError", issues |-> EmptyDict]
    ELSE IF PlanFields \ doc.fields # {} THEN [result |-> "KeyError", issues |-> EmptyDict]
    ELSE [result |-> "plan", issues |-> doc.issues]

\* Faulty variant of load_plan: KeyError is not caught.
load_plan_strict(doc) ==
    IF doc.kind = "absent" THEN [result |-> "None", issues |-> EmptyDict]
    ELSE LET loaded == from_json(doc)
         IN  IF loaded.result = "JSONDecodeError"
             THEN [result |-> "None", issues |-> EmptyDict]
             ELSE loaded

\* load_plan: None when the file does not exist, and when EpicPlan.load raises
\* JSONDecodeError or KeyError; any other exception propagates.
load_plan(doc) ==
    IF doc.kind = "absent" THEN [result |-> "None", issues |-> EmptyDict]
    ELSE LET loaded == from_json(doc)
         IN  IF loaded.result \in {"JSONDecodeError", "KeyError"}
             THEN [result |-> "None", issues |-> EmptyDict]
             ELSE loaded

\* No state document.
NoStateFile == [exists |-> FALSE, worktree_path |-> EmptyDict, status |-> EmptyDict]

(***************************************************************************)
(* EpicOrchestrator.run_complete_epic.                                     *)
(***************************************************************************)
\* get_existing_prs: issue -> pr of the open change requests of issue-n
\* branches; {} when gh fails.
get_existing_prs(gh_ok) ==
    IF gh_ok THEN [n \in host_prs |-> PrOf(n)] ELSE EmptyDict

\* Steps 2 to 4 up to the first await: the worktrees map that
\* create_worktrees_for_plan returns (an issue whose workspace could not be
\* acquired is left out), the existing change requests, the monitor task, and
\* the call of start_development.
EpicSetup ==
    /\ epic_pc = "start"
    /\ \E wt \in SUBSET IssueNumbers(plan), gh_ok \in BOOLEAN :
        /\ worktrees' = wt
        /\ plan_file' = save(plan, wt, issue_pr)    \* create_worktrees_for_plan: _save_plan
        /\ IF wt = {}
           THEN \* "No worktrees created - cannot proceed"
                /\ epic_pc' = "returned_false"
                /\ UNCHANGED <<existing_prs, mon_pc, dev_pc>>
           ELSE /\ existing_prs' = get_existing_prs(gh_ok)
                /\ mon_pc' = "poll"
                /\ dev_pc' = "loop"
                /\ epic_pc' = "developing"
    /\ UNCHANGED <<config_vars, call_vars, val_vars, draft_vars, state_file, cleaned_up, ws_vars, pm_vars, plan,
                   host_prs, phase_idx, results, phase_tasks,
                   tdd_state, tdd_semaphore, phase_results, dispatched, launched,
                   session_result, issue_pr, addressed, fix_attempts,
                   prs_needing_fixes, fix_state, fix_semaphore, fix_results,
                   observed, positive_polls>>

\* monitor_task.cancel(); await monitor_task: CancelledError reaches the monitor
\* at its await (sleep or gather) and, through gather, its fix sessions.
CancelledTasks(states) ==
    [k \in DOMAIN states |->
        IF states[k] \in {"pending", "running"} THEN "cancelled" ELSE states[k]]

\* Step 5: start_development returned; stop the monitor and
\* "return successful == total".
EpicFinish ==
    /\ epic_pc = "developing"
    /\ dev_pc = "returned"
    /\ LET successful == Cardinality({n \in DOMAIN results : results[n].success})
           total == Cardinality(DOMAIN results)
       IN  epic_pc' = IF successful = total THEN "returned_true" ELSE "returned_false"
    /\ mon_pc' = IF mon_pc \in {"poll", "sleep", "fixing"} THEN "cancelled" ELSE mon_pc
    /\ fix_state' = CancelledTasks(fix_state)
    /\ fix_semaphore' = fix_semaphore + Cardinality(Indices(fix_state, "running"))
    /\ UNCHANGED <<config_vars, ext_vars, ws_vars, pm_vars, input_vars, host_prs, dev_vars, issue_pr, addressed,
                   fix_attempts, prs_needing_fixes, fix_results, observed,
                   positive_polls>>

\* "except Exception": start_development raised; return False.
EpicRaise ==
    /\ epic_pc = "developing"
    /\ dev_pc = "raised"
    /\ epic_pc' = "returned_false"
    /\ UNCHANGED <<config_vars, ext_vars, ws_vars, pm_vars, input_vars, host_prs, dev_vars, mon_vars>>

(***************************************************************************)
(* Specifications.                                                         *)
(***************************************************************************)
(***************************************************************************)
(* WorkspaceManager.  repo is what git holds for one issue N: dir (the     *)
(* worktree path exists, with its .git file), dirty (uncommitted changes   *)
(* in it), branch (refs/heads/issue-N exists), base (the reference the     *)
(* branch was created from) and commits (commits made on the branch).      *)
(***************************************************************************)
Bases == {"main", "issue-101"}

NoBranch == [dir |-> FALSE, dirty |-> FALSE, branch |-> FALSE, base |-> "none", commits |-> 0]

FreshWorktree(base_branch) ==
    [dir |-> TRUE, dirty |-> FALSE, branch |-> TRUE, base |-> base_branch, commits |-> 0]

\* The states git can hold: a worktree has its branch checked out; without a
\* worktree nothing is uncommitted; without a branch there are no commits.
RepoStates ==
    {r \in [dir : BOOLEAN, dirty : BOOLEAN, branch : BOOLEAN,
            base : Bases \cup {"none"}, commits : 0..MaxCommits] :
        /\ r.dir => r.branch
        /\ r.dirty => r.dir
        /\ r.branch <=> r.base # "none"
        /\ ~r.branch => r.commits = 0}

\* What "git rev-list --count HEAD ^main" counts in the worktree: the commits
\* of the branch and those of a stacked base that are not on main.
CommitsBeyondMain(r) ==
    r.commits + (IF r.base = "issue-101" THEN dep_commits ELSE 0)

\* The outcomes of the git commands of one call: TRUE when git exits 0, state
\* permitting; cleanup is what becomes of cleanup_worktree's removal.
Outcomes ==
    [rev_list : BOOLEAN, status : BOOLEAN,
     cleanup : {"removed", "no_base_repo", "remove_failed"},
     delete : BOOLEAN, add : BOOLEAN]

worktree_exists(r) == r.dir

\* returncode == 0 of "git rev-parse --verify refs/heads/<branch>".
branch_exists(r) == r.branch

\* int(stdout) when the command exits 0, and 0 otherwise.
get_worktree_commit_count(r, o) == IF o.rev_list THEN CommitsBeyondMain(r) ELSE 0

\* "returncode == 0 and not stdout.strip()"; False on an exception.
is_worktree_clean(r, o) == o.status /\ ~r.dirty

\* "git worktree remove <path> --force": takes the path away, uncommitted
\* changes included; the branch stays.
GitWorktreeRemove(r, o) ==
    IF o.cleanup = "removed" /\ r.dir
    THEN [repo |-> [r EXCEPT !.dir = FALSE, !.dirty = FALSE], ok |-> TRUE]
    ELSE [repo |-> r, ok |-> FALSE]

\* "git branch -D <branch>": git refuses a branch that is checked out in a worktree.
GitBranchDelete(r, o) ==
    IF o.delete /\ r.branch /\ ~r.dir
    THEN [repo |-> NoBranch, ok |-> TRUE]
    ELSE [repo |-> r, ok |-> FALSE]

\* "git worktree add -b <branch> <path> <base>": git refuses an existing
\* branch name and an existing path.
GitWorktreeAdd(r, base_branch, o) ==
    IF o.add /\ ~r.branch /\ ~r.dir
    THEN [repo |-> FreshWorktree(base_branch), ok |-> TRUE]
    ELSE [repo |-> r, ok |-> FALSE]

\* cleanup_worktree(worktree_path, force=True)
cleanup_worktree(r, o) ==
    IF ~r.dir THEN [repo |-> r, ok |-> TRUE]
    ELSE IF o.cleanup = "no_base_repo" THEN [repo |-> r, ok |-> FALSE]
    ELSE GitWorktreeRemove(r, o)

\* What a call leaves behind: the repository, the result ("path": the call
\* returned worktree_path, which depends on instance, epic and issue number
\* only; or the exception raised) and what it did on the way.
CallResult(r, result, removed, deleted, created) ==
    [repo |-> r, result |-> result, removed |-> removed,
     branch_deleted |-> deleted, branch_created |-> created]

\* create_issue_worktree: returns the path, or raises CalledProcessError.
create_issue_worktree(r, base_branch, o, removed, deleted) ==
    LET added == GitWorktreeAdd(r, base_branch, o)
    IN  CallResult(added.repo, IF added.ok THEN "path" ELSE "CalledProcessError",
                   removed, deleted, added.ok)

\* The zero-commit branch of create_or_reuse_worktree: cleanup_worktree with
\* force, "git branch -D" if the branch is still there, then step 4 whatever
\* the two did.
RecreateWorktree(r, base_branch, o) ==
    LET cleaned == cleanup_worktree(r, o)
        deleted == IF branch_exists(cleaned.repo)
                   THEN GitBranchDelete(cleaned.repo, o)
                   ELSE [repo |-> cleaned.repo, ok |-> FALSE]
    IN  create_issue_worktree(deleted.repo, base_branch, o,
                              r.dir /\ ~cleaned.repo.dir, deleted.ok)

\* Faulty variant of create_or_reuse_worktree: a worktree with commits and
\* uncommitted changes is cleaned up and recreated instead of reported.
create_or_reuse_worktree_discarding(r, base_branch, o) ==
    IF worktree_exists(r)
    THEN IF get_worktree_commit_count(r, o) = 0
         THEN RecreateWorktree(r, base_branch, o)
         ELSE IF is_worktree_clean(r, o)
              THEN CallResult(r, "path", FALSE, FALSE, FALSE)
              ELSE RecreateWorktree(r, base_branch, o)
    ELSE IF branch_exists(r)
    THEN LET deleted == GitBranchDelete(r, o)
         IN  create_issue_worktree(deleted.repo, base_branch, o, FALSE, deleted.ok)
    ELSE create_issue_worktree(r, base_branch, o, FALSE, FALSE)

\* create_or_reuse_worktree, steps 2 to 4 (step 1, "git worktree prune", drops
\* the bookkeeping of paths that are gone and changes nothing of repo).
create_or_reuse_worktree(r, base_branch, o) ==
    IF worktree_exists(r)
    THEN IF get_worktree_commit_count(r, o) = 0
         THEN RecreateWorktree(r, base_branch, o)
         ELSE IF is_worktree_clean(r, o)
              THEN CallResult(r, "path", FALSE, FALSE, FALSE)
              ELSE CallResult(r, "ValueError", FALSE, FALSE, FALSE)
    ELSE IF branch_exists(r)
    THEN LET deleted == GitBranchDelete(r, o)
         IN  create_issue_worktree(deleted.repo, base_branch, o, FALSE, deleted.ok)
    ELSE create_issue_worktree(r, base_branch, o, FALSE, FALSE)

\* One call of create_or_reuse_worktree for the issue, as create_worktrees_for_plan
\* makes it with the issue's base_branch; the call is logged with the state it found.
CallCreateOrReuse(o) ==
    LET call == create_or_reuse_worktree(repo, issue_base, o)
        entry == [before |-> repo,
                  commit_count |-> IF worktree_exists(repo)
                                   THEN get_worktree_commit_count(repo, o) ELSE None,
                  add_ok |-> o.add, call |-> call]
    IN  /\ repo' = call.repo
        /\ ws_log' = IF Len(ws_log) < 2 THEN Append(ws_log, entry)
                      ELSE <<ws_log[2], entry>>
        /\ UNCHANGED <<dep_commits, issue_base, pm_vars, config_vars, ext_vars, input_vars, host_prs, epic_pc,
                       dev_vars, mon_vars>>

\* Somebody works in the worktree between two calls: an edit, or a commit of
\* the edits.
WorktreeEdit ==
    /\ repo.dir /\ ~repo.dirty
    /\ repo' = [repo EXCEPT !.dirty = TRUE]
    /\ UNCHANGED <<ws_log, dep_commits, issue_base, pm_vars, config_vars, ext_vars, input_vars, host_prs, epic_pc,
                   dev_vars, mon_vars>>

WorktreeCommit ==
    /\ repo.dir /\ repo.dirty /\ repo.commits < MaxCommits
    /\ repo' = [repo EXCEPT !.dirty = FALSE, !.commits = @ + 1]
    /\ UNCHANGED <<ws_log, dep_commits, issue_base, pm_vars, config_vars, ext_vars, input_vars, host_prs, epic_pc,
                   dev_vars, mon_vars>>

(***************************************************************************)
(* EpicPlan.get_dependency_chains.                                         *)
(***************************************************************************)
\* sorted(<a collection of issue numbers>)
RECURSIVE sorted(_)
sorted(S) ==
    IF S = {} THEN <<>>
    ELSE LET least == CHOOSE a \in S : \A b \in S : a <= b
         IN  <<least>> \o sorted(S \ {least})

\* has_parent: "issues that have dependencies".
HasParent(p) == {i.number : i \in {j \in Range(p.issues) : j.dependencies # {}}}

\* roots = [issue.number for issue in self.issues if issue.number not in has_parent]
Roots(p) == IssueNumbers(p) \ HasParent(p)

\* Faulty variant of Children: only the first child continues the chain.
ChildrenFirstOnly(p, current) ==
    LET all == sorted({i.number : i \in {j \in Range(p.issues) : current \in j.dependencies}})
    IN  IF all = <<>> THEN all ELSE <<Head(all)>>

\* sorted(children[current]): the issues that name current as a dependency.
Children(p, current) ==
    sorted({i.number : i \in {j \in Range(p.issues) : current \in j.dependencies}})

\* build_chain: "stack.pop(0)", skip the visited, append the children that are
\* not visited.  Returns the chain and the visited set.
RECURSIVE build_chain(_, _, _, _)
build_chain(p, stack, visited, chain) ==
    IF stack = <<>> THEN [chain |-> chain, visited |-> visited]
    ELSE LET current == Head(stack)
         IN  IF current \in visited
             THEN build_chain(p, Tail(stack), visited, chain)
             ELSE LET seen == visited \cup {current}
                      kids == SelectSeq(Children(p, current), LAMBDA c : c \notin seen)
                  IN  build_chain(p, Tail(stack) \o kids, seen, Append(chain, current))

\* "for root in sorted(roots): if root not in visited: ..."
RECURSIVE ChainsFrom(_, _, _, _)
ChainsFrom(p, roots, visited, acc) ==
    IF roots = <<>> THEN acc
    ELSE IF Head(roots) \in visited THEN ChainsFrom(p, Tail(roots), visited, acc)
    ELSE LET built == build_chain(p, <<Head(roots)>>, visited, <<>>)
         IN  ChainsFrom(p, Tail(roots), built.visited,
                        IF built.chain # <<>> THEN Append(acc, built.chain) ELSE acc)

get_dependency_chains(p) == ChainsFrom(p, sorted(Roots(p)), {}, <<>>)

\* The plans the plan model is asked about.  Three issues, each with up to two
\* dependencies among the other issues and 999, an issue that is not in the
\* plan: forests, joins, cycles and plans with a missing dependency.
PlanIssues == {101, 102, 103}

MissingIssue == 999

DependencyPlans ==
    {[issues |-> << Issue(101, d[101]), Issue(102, d[102]), Issue(103, d[103]) >>,
      parallelization |-> (1 :> <<101, 102, 103>>)] :
        d \in {f \in [PlanIssues -> SUBSET (PlanIssues \cup {MissingIssue})] :
                  \A n \in PlanIssues : n \notin f[n] /\ Cardinality(f[n]) <= 2}}

\* A stack of n issues, one per phase: issue 100+i depends on issue 100+i-1
\* and is the only issue of phase_i.
DeepChain(n) ==
    [issues |-> [i \in 1..n |-> Issue(100 + i, IF i = 1 THEN {} ELSE {100 + i - 1})],
     parallelization |-> [i \in 1..n |-> <<100 + i>>]]

ModelPlans == DependencyPlans \cup {DeepChain(n) : n \in 1..MaxPhases}

CallGetDependencyChains ==
    /\ "get_dependency_chains" \notin pm_called
    /\ chains' = get_dependency_chains(plan)
    /\ pm_called' = pm_called \cup {"get_dependency_chains"}
    /\ UNCHANGED <<phase_order, ws_vars, config_vars, ext_vars, input_vars, host_prs, epic_pc,
                   dev_vars, mon_vars>>

CallGetPhaseOrder ==
    /\ "get_phase_order" \notin pm_called
    /\ phase_order' = get_phase_order(plan)
    /\ pm_called' = pm_called \cup {"get_phase_order"}
    /\ UNCHANGED <<chains, ws_vars, config_vars, ext_vars, input_vars, host_prs, epic_pc,
                   dev_vars, mon_vars>>

(***************************************************************************)
(* ClaudeSessionManager.launch_tdd_workflow and its validation of what the *)
(* agent session left in the worktree.                                     *)
(***************************************************************************)
\* "if duration < 30"
MinDuration == 30

Durations == {MinDuration - 1, MinDuration}

\* A file of the worktree as the patterns see its path: the directory, the
\* start and the end of the file name, and the extension.
WorkFile(dir, prefix, suffix, ext) ==
    [dir |-> dir, prefix |-> prefix, suffix |-> suffix, ext |-> ext]

\* debug_101.py, src/debug_101.py, src/app.py and tests/RUN_TESTS_101.md
WorkFiles ==
    { WorkFile("", "debug_", "", ".py"),
      WorkFile("src", "debug_", "", ".py"),
      WorkFile("src", "", "", ".py"),
      WorkFile("tests", "RUN_TESTS_", "", ".md") }

\* fnmatch against temp_patterns: the patterns that name a start match at the
\* start of the whole path only; those that name an ending match any path.
is_temp(f) ==
    \/ f.dir = "" /\ f.prefix \in {"verify_", "debug_", "temp_"} /\ f.ext = ".py"
    \/ f.dir = "" /\ f.prefix = "test_" /\ f.ext = ".tmp"
    \/ f.ext \in {".pyc", ".log", ".swp", "~"}
    \/ f.dir \in {"__pycache__", ".pytest_cache"}

\* fnmatch against test_doc_patterns.
is_test_doc(f) ==
    /\ f.dir = "tests"
    /\ f.ext = ".md"
    /\ \/ f.prefix \in {"RUN_TESTS_", "TEST_SUMMARY_"}
       \/ f.suffix \in {"_tdd_plan", "_TEST_SUMMARY"}

\* What becomes of the git commands of the validation: "ok", "fails" (git
\* exits non-zero and prints nothing on stdout; check=False) or "raises"
\* (subprocess.run raises); auto_commit is whether "git add" and "git commit"
\* of the documentation files both exit 0.
GitOutcomes ==
    [git_log : {"ok", "fails", "raises"}, git_status : {"ok", "fails", "raises"},
     auto_commit : BOOLEAN]

\* The lines of "git log --oneline -5": the commits reachable from HEAD.
GitLogLines(log_base, commits, o) ==
    IF o.git_log = "ok" THEN Saturate(log_base + commits, 5) ELSE 0

\* The lines of "git status --short".
GitStatusLines(files, o) == IF o.git_status = "ok" THEN files ELSE {}

ValidationResult(valid, error_msg, problematic, committed) ==
    [valid |-> valid, error_msg |-> error_msg, problematic |-> problematic,
     committed |-> committed]

\* _validate_workflow_execution: (valid, error_msg), with the files the message
\* lists and the documentation files it committed.
_validate_workflow_execution(log_base, commits, files, duration, o) ==
    IF duration < MinDuration
    THEN ValidationResult(FALSE, "Workflow completed too quickly", {}, {})
    ELSE IF o.git_log # "raises" /\ GitLogLines(log_base, commits, o) = 0
    THEN ValidationResult(FALSE, "No commits created", {}, {})
    ELSE IF o.git_status = "raises"
    THEN ValidationResult(TRUE, "", {}, {})
    ELSE LET lines == GitStatusLines(files, o)
             test_doc_files == {f \in lines : ~is_temp(f) /\ is_test_doc(f)}
             other == {f \in lines : ~is_temp(f) /\ ~is_test_doc(f)}
             committed == IF o.auto_commit THEN test_doc_files ELSE {}
             problematic_files == other \cup (test_doc_files \ committed)
         IN  IF problematic_files # {}
             THEN ValidationResult(FALSE, "Uncommitted changes detected",
                                   problematic_files, committed)
             ELSE ValidationResult(TRUE, "", {}, committed)

\* No WorkflowResult yet.
NoLaunchResult ==
    [success |-> FALSE, error |-> "", problematic |-> {}, duration |-> 0,
     raised |-> FALSE, is_error |-> FALSE,
     outcome |-> [git_log |-> "ok", git_status |-> "ok", auto_commit |-> TRUE]]

\* The agent session writes a file in the worktree, or commits some of what
\* it wrote.
SessionWrite(f) ==
    /\ launch_pc = "session"
    /\ f \notin status_files
    /\ status_files' = status_files \cup {f}
    /\ UNCHANGED <<base_log, new_commits, launch_pc, launch_result, core_vars, draft_vars, store_vars, call_vars>>

SessionCommit ==
    /\ launch_pc = "session"
    /\ new_commits < MaxCommits
    /\ \E S \in SUBSET status_files :
          /\ S # {}
          /\ status_files' = status_files \ S
    /\ new_commits' = new_commits + 1
    /\ UNCHANGED <<base_log, launch_pc, launch_result, core_vars, draft_vars, store_vars, call_vars>>

\* The session is over after duration seconds, its ResultMessage with or
\* without is_error (which prints "Workflow failed" and sets nothing): the
\* validation decides the WorkflowResult.
LaunchTddReturns(duration, o, is_error) ==
    /\ launch_pc = "session"
    /\ LET v == _validate_workflow_execution(base_log, new_commits, status_files,
                                             duration, o)
       IN  /\ launch_result' =
                [success |-> v.valid,
                 error |-> IF v.valid THEN "" ELSE "Workflow validation failed: " \o v.error_msg,
                 problematic |-> v.problematic, duration |-> duration,
                 raised |-> FALSE, is_error |-> is_error, outcome |-> o]
           /\ status_files' = status_files \ v.committed
    /\ launch_pc' = "returned"
    /\ UNCHANGED <<base_log, new_commits, core_vars, draft_vars, store_vars, call_vars>>

\* "except Exception as e": the session raised; success=False, error=str(e).
LaunchTddRaises ==
    /\ launch_pc = "session"
    /\ launch_result' = [NoLaunchResult EXCEPT !.error = "session error", !.raised = TRUE]
    /\ launch_pc' = "returned"
    /\ UNCHANGED <<base_log, new_commits, status_files, core_vars, draft_vars, store_vars, call_vars>>

(***************************************************************************)
(* ReviewMonitor._discover_epic_prs with draft change requests: the        *)
(* listing, the matching loop and _publish_draft_pr.                       *)
(***************************************************************************)
\* "--json", "number,headRefName"
ListFields == {"number", "headRefName"}

\* The JSON object the hosting service returns for the open change request of
\* branch issue-n: the requested fields and no other.  headRefName is given by
\* the issue number of "issue-<n>".
PrJson(n, fields) ==
    [f \in fields \cap {"number", "headRefName", "isDraft"} |->
        CASE f = "number" -> PrOf(n)
          [] f = "headRefName" -> n
          [] f = "isDraft" -> n \in host_drafts]

\* prs_data of "gh pr list --state open --json <fields>", in issue order.
PrList(fields) ==
    LET open == sorted(host_prs)
    IN  [k \in DOMAIN open |-> PrJson(open[k], fields)]

\* The loop "for pr in prs_data": a change request that reads as a draft is
\* published and is left out when publishing fails; publish_ok is the set of
\* issues whose "gh pr ready" exits 0.  Returns issue_to_pr and the issues
\* whose change request was published.
RECURSIVE MatchAndPublish(_, _, _, _, _)
MatchAndPublish(prs_data, issue_numbers, publish_ok, issue_to_pr, published) ==
    IF prs_data = <<>> THEN [issue_to_pr |-> issue_to_pr, published |-> published]
    ELSE LET pr == Head(prs_data)
             pr_number == pr["number"]
             issue_num == pr["headRefName"]
             is_draft == DictGet(pr, "isDraft", FALSE)
         IN  IF issue_num \notin issue_numbers
             THEN MatchAndPublish(Tail(prs_data), issue_numbers, publish_ok,
                                  issue_to_pr, published)
             ELSE IF is_draft /\ issue_num \notin publish_ok
             THEN MatchAndPublish(Tail(prs_data), issue_numbers, publish_ok,
                                  issue_to_pr, published)
             ELSE MatchAndPublish(Tail(prs_data), issue_numbers, publish_ok,
                                  DictSet(issue_to_pr, issue_num, pr_number),
                                  IF is_draft THEN published \cup {issue_num} ELSE published)

\* A draft change request is opened for branch issue-n (the agent's workflow
\* may submit its branch as a draft).
HostOpenDraft(n) ==
    /\ n \in IssueNumbers(plan)
    /\ n \notin host_prs
    /\ host_prs' = host_prs \cup {n}
    /\ host_drafts' = host_drafts \cup {n}
    /\ UNCHANGED <<config_vars, input_vars, epic_pc, dev_vars, mon_vars, ws_vars, pm_vars,
                   val_vars, store_vars, call_vars>>

\* Somebody marks the draft of issue n ready for review.
HostMarkReady(n) ==
    /\ n \in host_drafts
    /\ host_drafts' = host_drafts \ {n}
    /\ UNCHANGED <<core_vars, val_vars, store_vars, call_vars>>

\* Phase 0 of a poll of monitor_epic_reviews: _discover_epic_prs (gh_ok: the
\* gh calls of the listing exit 0) and "issue.pr_number = discovered_pr".
DiscoverPoll(gh_ok, publish_ok) ==
    /\ mon_pc = "poll"
    /\ LET found == IF gh_ok
                    THEN MatchAndPublish(PrList(ListFields), IssueNumbers(plan), publish_ok,
                                         EmptyDict, {})
                    ELSE [issue_to_pr |-> EmptyDict, published |-> {}]
       IN  /\ issue_pr' = Discovered(issue_pr, found.issue_to_pr)
           /\ host_drafts' = host_drafts \ found.published
    /\ UNCHANGED <<config_vars, input_vars, host_prs, epic_pc, dev_vars, ws_vars, pm_vars,
                   val_vars, store_vars, call_vars, mon_pc, addressed, fix_attempts, prs_needing_fixes,
                   fix_state, fix_semaphore, fix_results, observed, positive_polls>>

(***************************************************************************)
(* The CLI's "epic cleanup" command, followed for the issue whose worktree *)
(* and branch repo describes.                                              *)
(***************************************************************************)
\* The issue repo belongs to: the one stacked on issue-101.
CleanupIssue == 102

\* cleanup_worktree(worktree_path, force): without --force git refuses to
\* remove a worktree that holds uncommitted changes.
cleanup_worktree_with(r, o, force) ==
    IF force \/ ~r.dir THEN cleanup_worktree(r, o)
    ELSE IF o.cleanup = "no_base_repo" \/ r.dirty THEN [repo |-> r, ok |-> FALSE]
    ELSE GitWorktreeRemove(r, o)

\* The state document with the worktree paths it records, every issue pending.
StateFile(paths) ==
    [exists |-> TRUE, worktree_path |-> paths, status |-> [n \in DOMAIN paths |-> "pending"]]

\* cleanup(epic_number, force): for each issue of the state document with a
\* recorded path that exists, remove the worktree unless it has commits and
\* force is not set, clear the path on success, and save the state document
\* if anything was cleaned.  The path of an issue other than CleanupIssue
\* does not exist.
CliCleanup(force, o) ==
    /\ state_file.exists
    /\ LET n == CleanupIssue
           visited == /\ n \in DOMAIN state_file.worktree_path
                      /\ state_file.worktree_path[n]
                      /\ worktree_exists(repo)
                      /\ ~(get_worktree_commit_count(repo, o) > 0 /\ ~force)
           done == cleanup_worktree_with(repo, o, force)
       IN  IF visited /\ done.ok
           THEN /\ repo' = done.repo
                /\ state_file' = [state_file EXCEPT !.worktree_path[n] = FALSE]
                /\ cleaned_up' = cleaned_up \cup {n}
           ELSE /\ repo' = IF visited THEN done.repo ELSE repo
                /\ UNCHANGED <<state_file, cleaned_up>>
    /\ UNCHANGED <<plan_file, ws_log, dep_commits, issue_base, pm_vars, config_vars,
                   input_vars, host_prs, epic_pc, dev_vars, mon_vars, val_vars, draft_vars, call_vars>>

\* run_monitor: "if issue.worktree_path: worktrees[issue.number] = ..." on
\* the plan load_plan returns.
MonitorWorktrees ==
    LET loaded == load_plan(plan_file)
    IN  {n \in DOMAIN loaded.issues : loaded.issues[n].worktree_path}

(***************************************************************************)
(* create_issue_worktree with its registration of the branch in Graphite.  *)
(***************************************************************************)
\* What running "gt track <branch>" with timeout=10 can come to: an exit
\* code, or an exception of subprocess.run (PermissionError: gt is found but
\* may not be executed, an OSError that is no FileNotFoundError).
GtOutcomes == {"exit_0", "exit_1", "TimeoutExpired", "FileNotFoundError", "PermissionError"}

\* _track_in_graphite: "None" when it returns, or the exception it lets through;
\* it catches CalledProcessError, TimeoutExpired and FileNotFoundError.
_track_in_graphite(gt) ==
    IF gt \in {"exit_0", "exit_1", "TimeoutExpired", "FileNotFoundError"} THEN "None" ELSE gt

\* One call of create_issue_worktree: "git worktree add", then
\* _track_in_graphite, then "return worktree_path"; "except CalledProcessError"
\* raises again and catches nothing else.
CallCreateIssueWorktree(o, gt) ==
    LET call == create_issue_worktree(repo, issue_base, o, FALSE, FALSE)
        tracked == IF call.branch_created THEN _track_in_graphite(gt) ELSE "not_called"
    IN  /\ repo' = call.repo
        /\ gt_call' = [gt |-> gt, created |-> call.branch_created, tracked |-> tracked,
                       result |-> IF call.branch_created /\ tracked # "None"
                                  THEN tracked ELSE call.result]
        /\ UNCHANGED <<status_call, stack_vars, verify_vars, disc_vars, ws_log, dep_commits, issue_base, pm_vars, config_vars, input_vars,
                       host_prs, epic_pc, dev_vars, mon_vars, val_vars, draft_vars, store_vars>>

\* The cleanup of a worktree between two calls ("epic cleanup" with force).
WorktreeRemoved ==
    /\ repo.dir
    /\ repo' = NoBranch
    /\ UNCHANGED <<call_vars, ws_log, dep_commits, issue_base, pm_vars, config_vars, input_vars,
                   host_prs, epic_pc, dev_vars, mon_vars, val_vars, draft_vars, store_vars>>

(***************************************************************************)
(* update_issue_status on the state document of the epic.                  *)
(***************************************************************************)
Statuses == {"pending", "in_progress", "completed"}

\* The issue numbers update_issue_status is called with; the state document
\* holds a subset of them.
StateIssues == {101, 102, 103}

\* The state documents an epic can have: none, or one with some issues, each
\* with a status and with or without a worktree path.
StateFiles ==
    {NoStateFile} \cup
    UNION {[exists : {TRUE}, worktree_path : [D -> BOOLEAN], status : [D -> Statuses]] :
              D \in SUBSET {101, 102}}

NoStatusCall ==
    [called |-> FALSE, issue |-> 0, status |-> "none", before |-> NoStateFile, result |-> FALSE]

\* _save_epic_state: the document is written, unless opening or writing the
\* file raises OSError, which is printed and not raised.
_save_epic_state(old, new, write_ok) == IF write_ok THEN new ELSE old

\* update_issue_status(epic_number, issue_number, new_status, **kwargs) with
\* kwargs either empty or worktree_path=<path>: False when load_epic_state
\* finds no document or the loop finds no such issue; otherwise the issue is
\* changed, the state saved and True returned.
update_issue_status(doc, issue_number, new_status, with_path, write_ok) ==
    IF ~doc.exists \/ issue_number \notin DOMAIN doc.status
    THEN [doc |-> doc, result |-> FALSE]
    ELSE LET updated == [doc EXCEPT !.status[issue_number] = new_status,
                                    !.worktree_path[issue_number] =
                                        IF with_path THEN TRUE ELSE @]
         IN  [doc |-> _save_epic_state(doc, updated, write_ok), result |-> TRUE]

CallUpdateIssueStatus(issue_number, new_status, with_path, write_ok) ==
    LET call == update_issue_status(state_file, issue_number, new_status, with_path, write_ok)
    IN  /\ state_file' = call.doc
        /\ status_call' = [called |-> TRUE, issue |-> issue_number, status |-> new_status,
                           before |-> state_file, result |-> call.result]
        /\ UNCHANGED <<gt_call, stack_vars, verify_vars, disc_vars, plan_file, cleaned_up, core_vars, val_vars, draft_vars>>

(***************************************************************************)
(* The base references of a plan: from_json on the agent's answer, then    *)
(* create_worktrees_for_plan with each issue's base_branch.                *)
(***************************************************************************)
StackIssues == <<101, 102>>

BranchOf(n) == IF n = 101 THEN "issue-101" ELSE "issue-102"

\* The plans the agent's answer can hold: from_json builds IssueInfo from
\* each entry as it is, any dependencies on other issues with any base_branch.
StackPlans ==
    {p \in [Range(StackIssues) ->
                [dependencies : SUBSET Range(StackIssues),
                 base_branch : {"main"} \cup {BranchOf(n) : n \in Range(StackIssues)}]] :
        \A n \in Range(StackIssues) : n \notin p[n].dependencies}

\* The references "git worktree add" can start a branch from: main, and the
\* branches of the worktrees made so far.
RefExists(base_branch) ==
    base_branch = "main" \/ \E m \in DOMAIN stack_worktrees : BranchOf(m) = base_branch

\* The git commands of a call on a path and branch that do not exist yet.
FirstCall(add_ok) ==
    [rev_list |-> TRUE, status |-> TRUE, cleanup |-> "removed", delete |-> TRUE, add |-> add_ok]

\* One round of the loop of create_worktrees_for_plan: create_or_reuse_worktree
\* with base_branch=issue.base_branch, "worktrees[issue.number] = worktree_path"
\* unless it raised.
CreateNextWorktree(add_ok) ==
    /\ stack_idx < Len(StackIssues)
    /\ LET n == StackIssues[stack_idx + 1]
           base_branch == stack_plan[n].base_branch
           call == create_or_reuse_worktree(NoBranch, base_branch,
                                            FirstCall(add_ok /\ RefExists(base_branch)))
       IN  stack_worktrees' = IF call.result = "path"
                              THEN DictSet(stack_worktrees, n, call.repo.base)
                              ELSE stack_worktrees
    /\ stack_idx' = stack_idx + 1
    /\ UNCHANGED <<stack_plan, gt_call, status_call, verify_vars, disc_vars, core_vars, val_vars, draft_vars,
                   store_vars>>

(***************************************************************************)
(* verify_and_fix_pr_base_branches on the plan document and the change     *)
(* requests of the hosting service.                                        *)
(***************************************************************************)
\* issue.base_branch of a plan that keeps the base-reference invariant.
expected_base(p, n) ==
    LET deps == IssueByNumber(p, n).dependencies
    IN  IF deps = {} THEN "main" ELSE BranchOf(CHOOSE dep \in deps : TRUE)

\* What the gh commands for one change request come to: "gh pr view" exits 0
\* with the JSON asked for, or exits non-zero (check=True: CalledProcessError),
\* or prints something json.loads or ['baseRefName'] fails on; "gh pr edit
\* --base" exits 0 or not.
GhOutcomes == [view : {"ok", "CalledProcessError", "bad_json"}, edit : BOOLEAN]

NoVerifyCall == [called |-> FALSE, result |-> "none", failed |-> {}, bases |-> EmptyDict]

\* The loop over plan.issues from position k on; acc carries the bases on the
\* hosting service, all_correct, fixes_made and the issues a check or a
\* correction failed for (history).
RECURSIVE VerifyLoop(_, _, _, _, _)
VerifyLoop(p, entries, k, o, acc) ==
    IF k > Len(p.issues) THEN acc
    ELSE LET n == p.issues[k].number
             expected == expected_base(p, n)
         IN  IF entries[n].pr_number = None
             THEN VerifyLoop(p, entries, k + 1, o, acc)
             ELSE IF o[n].view # "ok"
             THEN VerifyLoop(p, entries, k + 1, o,
                             [acc EXCEPT !.all_correct = FALSE, !.failed = @ \cup {n}])
             ELSE IF acc.bases[n] = expected
             THEN VerifyLoop(p, entries, k + 1, o, acc)
             ELSE IF o[n].edit
             THEN VerifyLoop(p, entries, k + 1, o,
                             [acc EXCEPT !.bases[n] = expected, !.fixes_made = @ + 1])
             ELSE VerifyLoop(p, entries, k + 1, o,
                             [acc EXCEPT !.all_correct = FALSE, !.failed = @ \cup {n}])

\* verify_and_fix_pr_base_branches: False without a plan, otherwise
\* "return all_correct or fixes_made > 0".
verify_and_fix_pr_base_branches(p, doc, bases, o) ==
    LET loaded == load_plan(doc)
    IN  IF loaded.result = "None"
        THEN [result |-> "False", failed |-> {}, bases |-> bases]
        ELSE IF loaded.result # "plan"
        THEN [result |-> loaded.result, failed |-> {}, bases |-> bases]
        ELSE LET done == VerifyLoop(p, loaded.issues, 1, o,
                                    [bases |-> bases, all_correct |-> TRUE,
                                     fixes_made |-> 0, failed |-> {}])
             IN  [result |-> IF done.all_correct \/ done.fixes_made > 0
                             THEN "True" ELSE "False",
                  failed |-> done.failed, bases |-> done.bases]

CallVerifyBases(o) ==
    LET call == verify_and_fix_pr_base_branches(plan, plan_file, pr_base, o)
    IN  /\ pr_base' = call.bases
        /\ verify_call' = [called |-> TRUE, result |-> call.result, failed |-> call.failed,
                           bases |-> call.bases]
        /\ UNCHANGED <<gt_call, status_call, stack_vars, disc_vars, core_vars, val_vars,
                       draft_vars, store_vars>>

\* Somebody changes the base of the change request of issue n on the hosting
\* service between two calls.
HostRetarget(n, base_branch) ==
    /\ n \in DOMAIN pr_base
    /\ pr_base[n] # base_branch
    /\ pr_base' = [pr_base EXCEPT ![n] = base_branch]
    /\ UNCHANGED <<verify_call, gt_call, status_call, stack_vars, disc_vars, core_vars,
                   val_vars, draft_vars, store_vars>>

(***************************************************************************)
(* ReviewMonitor.monitor_epic_by_discovery.                                *)
(***************************************************************************)
\* _has_new_coderabbit_comments: False when the query fails, otherwise whether
\* a comment of the reviewer is among the comments.
_has_new_coderabbit_comments(outcome) == outcome.ok /\ outcome.comments > 0

\* The polls of monitor_epic_by_discovery that are followed.
MaxPolls == 3

\* Faulty variant of DiscoveryComplete: one reported request ends the loop.
DiscoveryCompleteOnFirst(reported, prs_to_monitor) ==
    Cardinality(reported) >= 1

\* "if len(addressed) == len(prs_to_monitor): break"
DiscoveryComplete(reported, prs_to_monitor) ==
    Cardinality(reported) = Cardinality(prs_to_monitor)

\* The discovery before the loop: "if not issue_to_pr: return".
DiscStart(gh_ok) ==
    /\ disc_pc = "start"
    /\ LET issue_to_pr == _discover_epic_prs(gh_ok)
       IN  /\ disc_prs' = issue_to_pr
           /\ disc_pc' = IF DOMAIN issue_to_pr = {} THEN "returned" ELSE "poll"
    /\ UNCHANGED <<disc_addressed, disc_reported, disc_seen, disc_poll_count, gt_call, status_call, stack_vars,
                   verify_vars, core_vars, val_vars, draft_vars, store_vars>>

\* One poll: every request not in addressed is queried (q: the outcomes), one
\* with comments is reported and added to addressed; then break, or sleep.
DiscPoll ==
    /\ disc_pc = "poll"
    /\ disc_poll_count < MaxPolls
    /\ disc_poll_count' = disc_poll_count + 1
    /\ LET unchecked == {disc_prs[n] : n \in DOMAIN disc_prs} \ disc_addressed
       IN  \E q \in [unchecked -> QueryOutcomes] :
            LET found == {pr \in unchecked : _has_new_coderabbit_comments(q[pr])}
                reported == disc_addressed \cup found
            IN  /\ disc_addressed' = reported
                /\ disc_reported' = [pr \in DOMAIN disc_reported \cup found |->
                                        DictGet(disc_reported, pr, 0)
                                        + (IF pr \in found THEN 1 ELSE 0)]
                /\ disc_seen' = disc_seen \cup {pr \in unchecked : q[pr].ok /\ q[pr].comments > 0}
                /\ disc_pc' = IF DiscoveryComplete(reported, {disc_prs[n] : n \in DOMAIN disc_prs})
                              THEN "returned" ELSE "sleep"
    /\ UNCHANGED <<disc_prs, gt_call, status_call, stack_vars, verify_vars, core_vars, val_vars,
                   draft_vars, store_vars>>

\* asyncio.sleep(self.poll_interval) is over.
DiscWake ==
    /\ disc_pc = "sleep"
    /\ disc_pc' = "poll"
    /\ UNCHANGED <<disc_prs, disc_addressed, disc_reported, disc_seen, disc_poll_count, gt_call,
                   status_call,
                   stack_vars, verify_vars, core_vars, val_vars, draft_vars, store_vars>>

(***************************************************************************)
(* Step 1 of run_complete_epic: load_plan, and analyze_epic when there is  *)
(* no plan.  plan is the plan a well-formed document, or a well-formed     *)
(* answer of the agent, encodes.                                           *)
(***************************************************************************)
\* The documents state_dir can hold for plan p: none, text that is not JSON,
\* null, and an object with any of the top-level fields.
PlanDocuments(p) ==
    {AbsentDoc, Document("invalid_json", {}, EmptyDict), Document("null", {}, EmptyDict)}
    \cup {Document("object", F,
                   IF "issues" \in F
                   THEN [n \in IssueNumbers(p) |-> IssueEntry("pending", FALSE, None)]
                   ELSE EmptyDict) : F \in SUBSET PlanFields}

\* "plan = self.load_plan(epic_number); if plan: ... else: ... analyze_epic".
\* An exception of load_plan ends in "except Exception": return False.
EpicLoadPlan ==
    /\ epic_pc = "called"
    /\ LET loaded == load_plan(plan_file)
       IN  epic_pc' = CASE loaded.result = "plan" -> "start"
                        [] loaded.result = "None" -> "analyzing"
                        [] OTHER -> "returned_false"
    /\ UNCHANGED <<config_vars, ext_vars, ws_vars, pm_vars, input_vars, host_prs, dev_vars,
                   mon_vars>>

\* analyze_epic: get_epic_plan raises ImportError without the SDK; the agent's
\* answer is parsed by from_json and saved, or the exception is raised again.
EpicAnalyzeReturns(answer) ==
    /\ epic_pc = "analyzing"
    /\ IF sdk_installed /\ from_json(answer).result = "plan"
       THEN /\ plan_file' = save(plan, {}, issue_pr)
            /\ epic_pc' = "start"
       ELSE /\ epic_pc' = "returned_false"
            /\ UNCHANGED plan_file
    /\ UNCHANGED <<config_vars, call_vars, val_vars, draft_vars, state_file, cleaned_up, ws_vars, pm_vars,
                   input_vars, host_prs, dev_vars, mon_vars>>

ConfigInit ==
    /\ MAX_CONCURRENT_SESSIONS \in 1..MaxSessionsLimit
    /\ MAX_FIX_ATTEMPTS \in 1..MaxAttemptsLimit
    /\ sdk_installed \in BOOLEAN

DevIdle ==
    /\ dev_pc = "idle"
    /\ phase_idx = 1
    /\ results = EmptyDict
    /\ phase_tasks = <<>>
    /\ tdd_state = <<>>
    /\ tdd_semaphore = 0
    /\ phase_results = <<>>
    /\ dispatched = {}
    /\ launched = {}
    /\ session_result = EmptyDict

\* No plan-model method was called.
PmIdle ==
    /\ chains = <<>>
    /\ phase_order = <<>>
    /\ pm_called = {}

\* No worktree call is followed.
WsIdle ==
    /\ repo = NoBranch
    /\ dep_commits = 0
    /\ issue_base = "main"
    /\ ws_log = <<>>

MonIdle ==
    /\ addressed = {}
    /\ fix_attempts = EmptyDict
    /\ prs_needing_fixes = <<>>
    /\ fix_state = <<>>
    /\ fix_semaphore = 0
    /\ fix_results = <<>>
    /\ observed = EmptyDict
    /\ positive_polls = EmptyDict

\* No launch_tdd_workflow call is followed.
ValIdle ==
    /\ base_log = 0
    /\ new_commits = 0
    /\ status_files = {}
    /\ launch_pc = "idle"
    /\ launch_result = NoLaunchResult

\* No change request is a draft.
NoDrafts == host_drafts = {}

\* The plan document holds the plan as analyze_epic saved it; there is no
\* state document.
StoreIdle ==
    /\ plan_file = save(plan, {}, [n \in IssueNumbers(plan) |-> None])
    /\ state_file = NoStateFile
    /\ cleaned_up = {}

\* No create_issue_worktree call was made.
NoGtCall == [gt |-> "none", created |-> FALSE, tracked |-> "not_called", result |-> "none"]

\* monitor_epic_by_discovery is not called.
DiscIdle ==
    /\ disc_pc = "idle"
    /\ disc_prs = EmptyDict
    /\ disc_addressed = {}
    /\ disc_reported = EmptyDict
    /\ disc_seen = {}
    /\ disc_poll_count = 0

\* No single call is followed.
CallIdle ==
    /\ gt_call = NoGtCall
    /\ status_call = NoStatusCall
    /\ stack_plan = EmptyDict
    /\ stack_idx = 0
    /\ stack_worktrees = EmptyDict
    /\ pr_base = EmptyDict
    /\ verify_call = NoVerifyCall
    /\ DiscIdle

ExtIdle ==
    /\ ValIdle
    /\ NoDrafts

\* run_complete_epic is called on a plan whose issues carry no change-request
\* id yet; change requests of an earlier run may be open on the hosting service.
Init ==
    /\ ConfigInit
    /\ WsIdle
    /\ PmIdle
    /\ ExtIdle
    /\ MAX_FIX_ATTEMPTS <= EpicAttemptsLimit
    /\ plan \in SmallPlans
    /\ host_prs \in SUBSET IssueNumbers(plan)
    /\ worktrees = {}
    /\ existing_prs = EmptyDict
    /\ epic_pc = "start"
    /\ DevIdle
    /\ issue_pr = [n \in IssueNumbers(plan) |-> None]
    /\ mon_pc = "idle"
    /\ MonIdle
    /\ CallIdle
    /\ StoreIdle

MonitorActions ==
    \/ MonPoll
    \/ \E k \in 1..3 : FixStart(k)
    \/ \E k \in 1..3, success \in BOOLEAN : FixFinish(k, success)
    \/ MonFixesReturn
    \/ MonFixesRaise
    \/ MonWake

Next ==
    \/ EpicSetup
    \/ StartPhase
    \/ \E k \in 1..3 : TddStart(k)
    \/ \E k \in 1..3, success \in BOOLEAN : TddFinish(k, success)
    \/ PhaseReturns
    \/ PhaseRaises
    \/ DevReturns
    \/ EpicFinish
    \/ EpicRaise
    \/ \E n \in IssueNumbers(plan) : HostOpenPR(n)
    \/ MonitorActions

Spec == Init /\ [][Next]_vars

\* run_complete_epic on an epic that has no change request yet: every change
\* request on the hosting service was created during the run.
FreshEpicInit ==
    /\ Init
    /\ host_prs = {}

FreshEpicSpec == FreshEpicInit /\ [][Next]_vars

\* start_development alone, called with a plan, a worktrees map and the
\* existing change requests.
DevInit ==
    /\ ConfigInit
    /\ WsIdle
    /\ PmIdle
    /\ ExtIdle
    /\ plan \in Plans
    /\ host_prs \in SUBSET IssueNumbers(plan)
    /\ worktrees \in SUBSET IssueNumbers(plan)
    /\ existing_prs \in {get_existing_prs(TRUE), EmptyDict}
    /\ epic_pc = "none"
    /\ dev_pc = "loop"
    /\ phase_idx = 1
    /\ results = EmptyDict
    /\ phase_tasks = <<>>
    /\ tdd_state = <<>>
    /\ tdd_semaphore = 0
    /\ phase_results = <<>>
    /\ dispatched = {}
    /\ launched = {}
    /\ session_result = EmptyDict
    /\ issue_pr = [n \in IssueNumbers(plan) |-> None]
    /\ mon_pc = "idle"
    /\ MonIdle
    /\ CallIdle
    /\ StoreIdle

DevNext ==
    \/ StartPhase
    \/ \E k \in 1..3 : TddStart(k)
    \/ \E k \in 1..3, success \in BOOLEAN : TddFinish(k, success)
    \/ PhaseReturns
    \/ PhaseRaises
    \/ DevReturns
    \/ \E n \in IssueNumbers(plan) : HostOpenPR(n)

DevSpec == DevInit /\ [][DevNext]_vars

\* The CLI's "review monitor": monitor_epic_reviews alone, on a loaded plan
\* whose issues may already carry change-request ids, with the worktrees the
\* plan records.
MonitorInit ==
    /\ ConfigInit
    /\ WsIdle
    /\ PmIdle
    /\ ExtIdle
    /\ plan \in SmallPlans
    /\ host_prs \in SUBSET IssueNumbers(plan)
    /\ worktrees \in SUBSET IssueNumbers(plan) \ {{}}
    /\ existing_prs = EmptyDict
    /\ epic_pc = "none"
    /\ DevIdle
    /\ \E tracked \in SUBSET host_prs :
          issue_pr = [n \in IssueNumbers(plan) |-> IF n \in tracked THEN PrOf(n) ELSE None]
    /\ mon_pc = "poll"
    /\ MonIdle
    /\ CallIdle
    /\ StoreIdle

MonitorNext ==
    \/ \E n \in IssueNumbers(plan) : HostOpenPR(n)
    \/ MonitorActions

MonitorSpec == MonitorInit /\ [][MonitorNext]_vars

\* create_or_reuse_worktree called, again and again, on every state the
\* issue's worktree and branch can be in.
WorktreeInit ==
    /\ MAX_CONCURRENT_SESSIONS = 1
    /\ MAX_FIX_ATTEMPTS = 1
    /\ sdk_installed = TRUE
    /\ repo \in RepoStates
    /\ dep_commits \in 0..MaxDepCommits
    /\ issue_base \in Bases
    /\ ws_log = <<>>
    /\ PmIdle
    /\ ExtIdle
    /\ plan = PlanChain
    /\ host_prs = {}
    /\ worktrees = {}
    /\ existing_prs = EmptyDict
    /\ epic_pc = "none"
    /\ DevIdle
    /\ issue_pr = [n \in IssueNumbers(plan) |-> None]
    /\ mon_pc = "idle"
    /\ MonIdle
    /\ CallIdle
    /\ StoreIdle

WorktreeNext ==
    \/ \E o \in Outcomes : CallCreateOrReuse(o)
    \/ WorktreeEdit
    \/ WorktreeCommit

WorktreeSpec == WorktreeInit /\ [][WorktreeNext]_vars

\* create_issue_worktree called on every state of the issue's worktree and
\* branch, with every outcome of gt.
TrackInit ==
    /\ MAX_CONCURRENT_SESSIONS = 1
    /\ MAX_FIX_ATTEMPTS = 1
    /\ sdk_installed = TRUE
    /\ repo \in RepoStates
    /\ dep_commits = 0
    /\ issue_base \in Bases
    /\ ws_log = <<>>
    /\ PmIdle
    /\ ExtIdle
    /\ plan = PlanChain
    /\ host_prs = {}
    /\ worktrees = {}
    /\ existing_prs = EmptyDict
    /\ epic_pc = "none"
    /\ DevIdle
    /\ issue_pr = [n \in IssueNumbers(plan) |-> None]
    /\ mon_pc = "idle"
    /\ MonIdle
    /\ CallIdle
    /\ StoreIdle

TrackNext ==
    \/ \E o \in Outcomes, gt \in GtOutcomes : CallCreateIssueWorktree(o, gt)
    \/ WorktreeEdit
    \/ WorktreeCommit
    \/ WorktreeRemoved

TrackSpec == TrackInit /\ [][TrackNext]_vars

\* update_issue_status called, again and again, on every state document.
StatusInit ==
    /\ MAX_CONCURRENT_SESSIONS = 1
    /\ MAX_FIX_ATTEMPTS = 1
    /\ sdk_installed = TRUE
    /\ WsIdle
    /\ PmIdle
    /\ ExtIdle
    /\ plan = PlanChain
    /\ host_prs = {}
    /\ worktrees = {}
    /\ existing_prs = EmptyDict
    /\ epic_pc = "none"
    /\ DevIdle
    /\ issue_pr = [n \in IssueNumbers(plan) |-> None]
    /\ mon_pc = "idle"
    /\ MonIdle
    /\ CallIdle
    /\ plan_file = AbsentDoc
    /\ state_file \in StateFiles
    /\ cleaned_up = {}

StatusNext ==
    \E n \in StateIssues, new_status \in Statuses, with_path \in BOOLEAN, write_ok \in BOOLEAN :
        CallUpdateIssueStatus(n, new_status, with_path, write_ok)

StatusSpec == StatusInit /\ [][StatusNext]_vars

\* create_worktrees_for_plan on every plan from_json accepts.
StackInit ==
    /\ MAX_CONCURRENT_SESSIONS = 1
    /\ MAX_FIX_ATTEMPTS = 1
    /\ sdk_installed = TRUE
    /\ WsIdle
    /\ PmIdle
    /\ ExtIdle
    /\ plan = PlanChain
    /\ host_prs = {}
    /\ worktrees = {}
    /\ existing_prs = EmptyDict
    /\ epic_pc = "none"
    /\ DevIdle
    /\ issue_pr = [n \in IssueNumbers(plan) |-> None]
    /\ mon_pc = "idle"
    /\ MonIdle
    /\ gt_call = NoGtCall
    /\ status_call = NoStatusCall
    /\ stack_plan \in StackPlans
    /\ stack_idx = 0
    /\ stack_worktrees = EmptyDict
    /\ pr_base = EmptyDict
    /\ verify_call = NoVerifyCall
    /\ DiscIdle
    /\ StoreIdle

StackNext == \E add_ok \in BOOLEAN : CreateNextWorktree(add_ok)

StackSpec == StackInit /\ [][StackNext]_vars

\* verify_and_fix_pr_base_branches called, again and again, on a stack of two
\* issues whose plan document records their change requests or not.
VerifyInit ==
    /\ MAX_CONCURRENT_SESSIONS = 1
    /\ MAX_FIX_ATTEMPTS = 1
    /\ sdk_installed = TRUE
    /\ WsIdle
    /\ PmIdle
    /\ ExtIdle
    /\ plan = PlanChain
    /\ host_prs = {}
    /\ worktrees = {}
    /\ existing_prs = EmptyDict
    /\ epic_pc = "none"
    /\ DevIdle
    /\ issue_pr = [n \in IssueNumbers(plan) |-> None]
    /\ mon_pc = "idle"
    /\ MonIdle
    /\ gt_call = NoGtCall
    /\ status_call = NoStatusCall
    /\ stack_plan = EmptyDict
    /\ stack_idx = 0
    /\ stack_worktrees = EmptyDict
    /\ pr_base \in [IssueNumbers(plan) -> Bases]
    /\ verify_call = NoVerifyCall
    /\ DiscIdle
    /\ \E recorded \in SUBSET IssueNumbers(plan) :
          plan_file \in {AbsentDoc,
                         save(plan, {}, [n \in IssueNumbers(plan) |->
                                            IF n \in recorded THEN PrOf(n) ELSE None])}
    /\ state_file = NoStateFile
    /\ cleaned_up = {}

VerifyNext ==
    \/ \E o \in [IssueNumbers(plan) -> GhOutcomes] : CallVerifyBases(o)
    \/ \E n \in IssueNumbers(plan), base_branch \in Bases : HostRetarget(n, base_branch)

VerifySpec == VerifyInit /\ [][VerifyNext]_vars

\* monitor_epic_by_discovery on an epic of two or three issues, some with an
\* open change request.
ByDiscoveryInit ==
    /\ MAX_CONCURRENT_SESSIONS = 1
    /\ MAX_FIX_ATTEMPTS = 1
    /\ sdk_installed = TRUE
    /\ WsIdle
    /\ PmIdle
    /\ ExtIdle
    /\ plan \in Plans
    /\ host_prs \in SUBSET IssueNumbers(plan)
    /\ worktrees = {}
    /\ existing_prs = EmptyDict
    /\ epic_pc = "none"
    /\ DevIdle
    /\ issue_pr = [n \in IssueNumbers(plan) |-> None]
    /\ mon_pc = "idle"
    /\ MonIdle
    /\ gt_call = NoGtCall
    /\ status_call = NoStatusCall
    /\ stack_plan = EmptyDict
    /\ stack_idx = 0
    /\ stack_worktrees = EmptyDict
    /\ pr_base = EmptyDict
    /\ verify_call = NoVerifyCall
    /\ disc_pc = "start"
    /\ disc_prs = EmptyDict
    /\ disc_addressed = {}
    /\ disc_reported = EmptyDict
    /\ disc_seen = {}
    /\ disc_poll_count = 0
    /\ StoreIdle

ByDiscoveryNext ==
    \/ \E gh_ok \in BOOLEAN : DiscStart(gh_ok)
    \/ DiscPoll
    \/ DiscWake

ByDiscoverySpec == ByDiscoveryInit /\ [][ByDiscoveryNext]_vars

\* The plan model's methods, called on each of the plans.
PlanModelInit ==
    /\ MAX_CONCURRENT_SESSIONS = 1
    /\ MAX_FIX_ATTEMPTS = 1
    /\ sdk_installed = TRUE
    /\ WsIdle
    /\ PmIdle
    /\ ExtIdle
    /\ plan \in ModelPlans
    /\ host_prs = {}
    /\ worktrees = {}
    /\ existing_prs = EmptyDict
    /\ epic_pc = "none"
    /\ DevIdle
    /\ issue_pr = [n \in IssueNumbers(plan) |-> None]
    /\ mon_pc = "idle"
    /\ MonIdle
    /\ CallIdle
    /\ StoreIdle

PlanModelNext ==
    \/ CallGetDependencyChains
    \/ CallGetPhaseOrder

PlanModelSpec == PlanModelInit /\ [][PlanModelNext]_vars

\* launch_tdd_workflow alone: one agent session in a worktree created from a
\* base reference, and the validation of what it left.
LaunchInit ==
    /\ MAX_CONCURRENT_SESSIONS = 1
    /\ MAX_FIX_ATTEMPTS = 1
    /\ sdk_installed = TRUE
    /\ WsIdle
    /\ PmIdle
    /\ plan = PlanChain
    /\ host_prs = {}
    /\ worktrees = {}
    /\ existing_prs = EmptyDict
    /\ epic_pc = "none"
    /\ DevIdle
    /\ issue_pr = [n \in IssueNumbers(plan) |-> None]
    /\ mon_pc = "idle"
    /\ MonIdle
    /\ CallIdle
    /\ StoreIdle
    /\ base_log \in 0..MaxDepCommits
    /\ new_commits = 0
    /\ status_files = {}
    /\ launch_pc = "session"
    /\ launch_result = NoLaunchResult
    /\ NoDrafts

LaunchNext ==
    \/ \E f \in WorkFiles : SessionWrite(f)
    \/ SessionCommit
    \/ \E duration \in Durations, o \in GitOutcomes, is_error \in BOOLEAN :
          LaunchTddReturns(duration, o, is_error)
    \/ LaunchTddRaises

LaunchSpec == LaunchInit /\ [][LaunchNext]_vars

\* run_complete_epic from its call to the start of development, on every
\* plan document.
LoadInit ==
    /\ MAX_CONCURRENT_SESSIONS = 1
    /\ MAX_FIX_ATTEMPTS = 1
    /\ sdk_installed \in BOOLEAN
    /\ WsIdle
    /\ PmIdle
    /\ ValIdle
    /\ NoDrafts
    /\ plan \in SmallPlans
    /\ host_prs \in SUBSET IssueNumbers(plan)
    /\ worktrees = {}
    /\ existing_prs = EmptyDict
    /\ epic_pc = "called"
    /\ DevIdle
    /\ issue_pr = [n \in IssueNumbers(plan) |-> None]
    /\ mon_pc = "idle"
    /\ MonIdle
    /\ CallIdle
    /\ plan_file \in PlanDocuments(plan)
    /\ state_file = NoStateFile
    /\ cleaned_up = {}

LoadNext ==
    \/ EpicLoadPlan
    \/ \E answer \in PlanDocuments(plan) \ {AbsentDoc} : EpicAnalyzeReturns(answer)
    \/ EpicSetup

LoadSpec == LoadInit /\ [][LoadNext]_vars


\* The cleanup command on an epic whose documents record the worktree paths
\* that create_worktrees_for_plan assigned, on every state the worktree of
\* CleanupIssue can be in.
CleanupInit ==
    /\ MAX_CONCURRENT_SESSIONS = 1
    /\ MAX_FIX_ATTEMPTS = 1
    /\ sdk_installed = TRUE
    /\ repo \in RepoStates
    /\ dep_commits \in 0..MaxDepCommits
    /\ issue_base = "issue-101"
    /\ ws_log = <<>>
    /\ PmIdle
    /\ ValIdle
    /\ NoDrafts
    /\ plan = PlanChain
    /\ host_prs = {}
    /\ worktrees = {}
    /\ existing_prs = EmptyDict
    /\ epic_pc = "none"
    /\ DevIdle
    /\ issue_pr = [n \in IssueNumbers(plan) |-> None]
    /\ mon_pc = "idle"
    /\ MonIdle
    /\ CallIdle
    /\ \E wt \in SUBSET IssueNumbers(plan) :
          /\ plan_file = save(plan, wt, issue_pr)
          /\ state_file \in {NoStateFile, StateFile([n \in IssueNumbers(plan) |-> n \in wt])}
    /\ cleaned_up = {}

CleanupNext ==
    \/ \E force \in BOOLEAN, o \in Outcomes : CliCleanup(force, o)
    \/ WorktreeEdit
    \/ WorktreeCommit

CleanupSpec == CleanupInit /\ [][CleanupNext]_vars


\* The discovery of a poll alone, on a hosting service where change requests
\* are opened as drafts or ready for review.
DiscoverInit ==
    /\ MAX_CONCURRENT_SESSIONS = 1
    /\ MAX_FIX_ATTEMPTS = 1
    /\ sdk_installed = TRUE
    /\ WsIdle
    /\ PmIdle
    /\ ValIdle
    /\ plan \in Plans
    /\ host_prs = {}
    /\ host_drafts = {}
    /\ worktrees = IssueNumbers(plan)
    /\ existing_prs = EmptyDict
    /\ epic_pc = "none"
    /\ DevIdle
    /\ issue_pr = [n \in IssueNumbers(plan) |-> None]
    /\ mon_pc = "poll"
    /\ MonIdle
    /\ CallIdle
    /\ StoreIdle

DiscoverNext ==
    \/ \E n \in IssueNumbers(plan) : HostOpenPR(n)
    \/ \E n \in IssueNumbers(plan) : HostOpenDraft(n)
    \/ \E n \in IssueNumbers(plan) : HostMarkReady(n)
    \/ \E gh_ok \in BOOLEAN, publish_ok \in SUBSET IssueNumbers(plan) :
          DiscoverPoll(gh_ok, publish_ok)

DiscoverSpec == DiscoverInit /\ [][DiscoverNext]_vars






(***************************************************************************)
(* Properties of start_development (checked under DevSpec).                *)
(***************************************************************************)
DevSessionsInFlight == Cardinality(Indices(tdd_state, "running"))

\* C1: phases run strictly in sequence: whenever a session of an issue has been
\* started, every session dispatched for an earlier phase of the execution
\* order has already returned its WorkflowResult.
PhasesRunInSequence ==
    \A i \in launched : \A j \in dispatched :
        PhasePos(plan, j) < PhasePos(plan, i) => j \in DOMAIN session_result

\* A session of a second phase runs after a first phase of two sessions.
PhasesRunInSequenceWitness ==
    \E i \in launched : \E j1, j2 \in dispatched :
        /\ j1 # j2
        /\ PhasePos(plan, j1) < PhasePos(plan, i)
        /\ PhasePos(plan, j2) < PhasePos(plan, i)

\* C2: fail-fast: once a session of a phase returned success=false, no issue of
\* a later phase is ever dispatched, and start_development does not go on to
\* another phase (it waits for the phase's sessions and returns).
FailFast ==
    \A j \in DOMAIN session_result :
        ~session_result[j] =>
            /\ \A i \in dispatched : PhasePos(plan, i) <= PhasePos(plan, j)
            /\ dev_pc \in {"gather", "returned"}
            /\ dev_pc = "gather" => get_phase_order(plan)[phase_idx] = get_phase_order(plan)[PhasePos(plan, j)]

\* start_development returned after a failure in a phase that has a successor
\* with work to do.
FailFastWitness ==
    /\ dev_pc = "returned"
    /\ \E j \in DOMAIN session_result :
          /\ ~session_result[j]
          /\ \E n \in worktrees \ DOMAIN existing_prs : PhasePos(plan, n) > PhasePos(plan, j)

\* C3 (as claimed): an issue is dispatched only after every issue of its
\* dependency set has a successful result: a successful WorkflowResult in the
\* result map, or an already-existing change request.
DispatchedAfterDependencies ==
    \A i \in dispatched : \A d \in IssueByNumber(plan, i).dependencies :
        \/ d \in DOMAIN results /\ results[d].success
        \/ d \in DOMAIN existing_prs

\* The loop of start_development has reached the phase of issue n.
PhaseEntered(n) ==
    LET pos == PhasePos(plan, n)
    IN  /\ pos > 0
        /\ \/ phase_idx > pos
           \/ phase_idx = pos /\ dev_pc \in {"gather", "returned", "raised"}

\* The issues start_development was called with a worktree and an existing
\* change request for.
Resumed == worktrees \cap DOMAIN existing_prs

\* C23: an issue with a workspace and an existing change request is never
\* dispatched to an agent session; once the loop has reached its phase the
\* result map holds a successful result with that change-request id for it,
\* and the other issues of the phase that have a workspace and no change
\* request have been dispatched.
ResumeSkipsExisting ==
    \A n \in Resumed :
        /\ n \notin dispatched
        /\ n \notin launched
        /\ PhaseEntered(n) =>
              /\ n \in DOMAIN results
              /\ results[n] = WorkflowResult(n, TRUE, existing_prs[n])
              /\ \A m \in (worktrees \ DOMAIN existing_prs) :
                    PhasePos(plan, m) = PhasePos(plan, n) => m \in dispatched

\* A phase with a resumed issue and an issue whose session has run.
ResumeSkipsExistingWitness ==
    \E n \in Resumed : \E m \in DOMAIN session_result :
        /\ PhasePos(plan, m) = PhasePos(plan, n)
        /\ n \in DOMAIN results
        /\ results[n].pr_number = PrOf(n)

\* C24 (as claimed): the map start_development returns holds a WorkflowResult
\* for every issue a session was dispatched for, the one the session
\* returned, also when a session of the phase failed.
EveryDispatchedResultReturned ==
    dev_pc = "returned" =>
        \A n \in dispatched :
            /\ n \in DOMAIN results
            /\ results[n].success = session_result[n]

(***************************************************************************)
(* Properties of the session limiter (checked under Spec).                 *)
(***************************************************************************)
FixSessionsInFlight == Cardinality(Indices(fix_state, "running"))

\* C4: within one call of run_parallel_tdd_workflows or
\* run_parallel_review_fixers at most MAX_CONCURRENT_SESSIONS sessions are in
\* flight; a task that waits for the semaphore waits for a running session (so
\* it is started once that session returns); and when every task has returned,
\* the results are in task order.
SessionLimitPerCall ==
    /\ DevSessionsInFlight <= MAX_CONCURRENT_SESSIONS
    /\ FixSessionsInFlight <= MAX_CONCURRENT_SESSIONS
    /\ (Indices(tdd_state, "pending") # {} /\ SemaphoreLocked(tdd_semaphore))
          => Indices(tdd_state, "running") # {}
    /\ (Indices(fix_state, "pending") # {} /\ SemaphoreLocked(fix_semaphore))
          => Indices(fix_state, "running") # {}
    /\ (tdd_state # <<>> /\ GatherDone(tdd_state))
          => \A k \in DOMAIN phase_tasks : phase_results[k].issue_number = phase_tasks[k]
    /\ (fix_state # <<>> /\ GatherDone(fix_state))
          => \A k \in DOMAIN prs_needing_fixes :
                fix_results[k].issue_number = prs_needing_fixes[k][2]

\* More tasks than the limit: one waits while the limit is in flight.
SessionLimitPerCallWitness ==
    /\ DevSessionsInFlight = MAX_CONCURRENT_SESSIONS
    /\ Indices(tdd_state, "pending") # {}

\* C5 (as claimed): development sessions plus review-fix sessions in flight
\* never exceed MAX_CONCURRENT_SESSIONS.
TotalSessionsWithinLimit ==
    DevSessionsInFlight + FixSessionsInFlight <= MAX_CONCURRENT_SESSIONS

(***************************************************************************)
(* Properties of monitor_epic_reviews (checked under MonitorSpec).         *)
(***************************************************************************)
TrackedPrs == {issue_pr[n] : n \in DOMAIN issue_pr} \ {None}

IssueOfPr(pr) == CHOOSE n \in DOMAIN issue_pr : issue_pr[n] = pr

HasWorktree(pr) == IssueOfPr(pr) \in worktrees

InFixBatch(pr) == \E k \in DOMAIN prs_needing_fixes : prs_needing_fixes[k][2] = pr

Attempts(pr) == DictGet(fix_attempts, pr, 0)

PositivePolls(pr) == DictGet(positive_polls, pr, 0)

AllTrackedClean == TrackedPrs # {} /\ TrackedPrs \subseteq addressed

\* The step of one poll (MonPoll is the only step that leaves "poll").
PollStep == mon_pc = "poll" /\ mon_pc' # "poll"

ObservedZero(obs, pr) == pr \in DOMAIN obs /\ obs[pr].ok /\ obs[pr].comments = 0

ObservedPositive(obs, pr) == pr \in DOMAIN obs /\ obs[pr].ok /\ obs[pr].comments > 0

\* C6 (as claimed): a change request enters the addressed set only in a poll
\* whose query of it succeeded and counted 0 reviewer comments.
CleanOnlyOnObservedZero ==
    [][\A pr \in addressed' \ addressed : ObservedZero(observed', pr)]_vars

\* C7 (as claimed): a tracked change request whose comment count stays positive
\* is Exhausted after MAX_FIX_ATTEMPTS polls that saw comments: no later poll
\* queries it, so the loop cannot go on polling it forever.
ExhaustedAfterMaxAttempts ==
    \A pr \in TrackedPrs : PositivePolls(pr) <= MAX_FIX_ATTEMPTS

\* C8: for a tracked change request with a workspace, every poll that observes
\* comments dispatches exactly one fix session for it (and counts it when the
\* batch returns); while it is below the attempt limit and not clean the next
\* poll queries it again; an observed count of 0 makes it Clean; and a poll
\* ends with the loop's exit "all clean" exactly when every tracked request is
\* Clean.
ReviewCycle ==
    /\ [](\A pr \in TrackedPrs : HasWorktree(pr) =>
            PositivePolls(pr) =
                Attempts(pr) + (IF mon_pc \in {"fixing", "failed"} /\ InFixBatch(pr) THEN 1 ELSE 0))
    /\ [](/\ mon_pc = "all_clean" => AllTrackedClean
          /\ mon_pc \in {"sleep", "max_attempts", "fixing"} => ~AllTrackedClean)
    /\ [][PollStep =>
            /\ \A pr \in TrackedPrs :
                  (HasWorktree(pr) /\ pr \notin addressed /\ Attempts(pr) < MAX_FIX_ATTEMPTS)
                      => pr \in DOMAIN observed'
            /\ \A pr \in DOMAIN observed' :
                  /\ ObservedZero(observed', pr) => pr \in addressed'
                  /\ (ObservedPositive(observed', pr) /\ HasWorktree(pr)')
                        => mon_pc' = "fixing" /\ InFixBatch(pr)' /\ pr \notin addressed']_vars

\* Comments, comments, none: two fix sessions, then Clean, and the loop is over.
ReviewCycleWitness ==
    /\ mon_pc = "all_clean"
    /\ \E pr \in addressed : HasWorktree(pr) /\ Attempts(pr) = 2 /\ ObservedZero(observed, pr)

\* C9 (as claimed): when the loop is over, every change request that went
\* through a fix session was queried again after its last fix session: it is
\* Clean, or a later poll saw comments on it.
RecheckedAfterEveryFix ==
    mon_pc \in {"all_clean", "max_attempts"} =>
        \A pr \in DOMAIN fix_attempts :
            pr \in addressed \/ PositivePolls(pr) > Attempts(pr)

\* C10: no change request goes through more than MAX_FIX_ATTEMPTS fix
\* sessions: the attempt counter, plus the fix session in flight or being
\* counted, never exceeds MAX_FIX_ATTEMPTS.
AttemptsBounded ==
    \A pr \in TrackedPrs \cup DOMAIN fix_attempts :
        Attempts(pr) + (IF mon_pc = "fixing" /\ InFixBatch(pr) THEN 1 ELSE 0) <= MAX_FIX_ATTEMPTS

\* A change request reaches the limit while another one is still worked on.
AttemptsBoundedWitness ==
    \E pr \in DOMAIN fix_attempts :
        /\ Attempts(pr) = MAX_FIX_ATTEMPTS
        /\ MAX_FIX_ATTEMPTS > 1
        /\ mon_pc = "sleep"


\* The await on the fix batch has returned and the attempts are counted.
FixBatchReturns == mon_pc = "fixing" /\ mon_pc' \in {"sleep", "all_clean", "max_attempts"}

\* C11: when a batch of fix sessions has completed, the attempt counter of
\* every change request of the batch goes up by exactly one, whether its
\* session reported success or failure, and no other counter changes; the
\* counters change at no other step.
FixCountsOneAttempt ==
    [][/\ FixBatchReturns =>
            \A pr \in TrackedPrs \cup DOMAIN fix_attempts \cup DOMAIN fix_attempts' :
                Attempts(pr)' = Attempts(pr) + (IF InFixBatch(pr) THEN 1 ELSE 0)
       /\ fix_attempts' # fix_attempts => FixBatchReturns]_vars

\* A change request reaches a limit of at least two attempts with a fix
\* session that reported failure.
FixCountsOneAttemptWitness ==
    /\ mon_pc = "max_attempts"
    /\ MAX_FIX_ATTEMPTS >= 2
    /\ \E k \in DOMAIN fix_results :
          /\ fix_state[k] = "done"
          /\ ~fix_results[k].success
          /\ Attempts(fix_results[k].issue_number) = MAX_FIX_ATTEMPTS

\* C12: a change request in the addressed (Clean) set stays in it, is not
\* queried by any later poll and is in no later batch of fix sessions.
CleanIsTerminal ==
    /\ [][/\ addressed \subseteq addressed'
          /\ PollStep => \A pr \in addressed : pr \notin DOMAIN observed']_vars
    /\ [](mon_pc = "fixing" => \A pr \in addressed : ~InFixBatch(pr))

\* A poll after a change request became Clean dispatched a fix for another one.
CleanIsTerminalWitness ==
    /\ mon_pc = "fixing"
    /\ \E pr \in addressed : pr \notin DOMAIN observed


(***************************************************************************)
(* Properties of create_or_reuse_worktree (checked under WorktreeSpec).    *)
(***************************************************************************)
\* The worktree the call found exists and has commits that are not on main.
FoundCommitted(c) == c.before.dir /\ CommitsBeyondMain(c.before) > 0

FoundZeroCommits(c) == c.before.dir /\ CommitsBeyondMain(c.before) = 0

\* The call returned the path and did nothing to the repository.
ReusedUntouched(c) ==
    /\ c.call.result = "path"
    /\ ~c.call.removed /\ ~c.call.branch_deleted /\ ~c.call.branch_created
    /\ c.call.repo = c.before

\* C13 (as claimed): two consecutive calls on a worktree with commits and no
\* uncommitted changes, with nothing done to it in between, both return the
\* path, and neither removes the worktree, deletes its branch or creates a
\* branch.
AcquireIdempotent ==
    \A i \in DOMAIN ws_log :
        (i + 1 \in DOMAIN ws_log /\ FoundCommitted(ws_log[i]) /\ ~ws_log[i].before.dirty
            /\ ws_log[i + 1].before = ws_log[i].call.repo)
        => ReusedUntouched(ws_log[i]) /\ ReusedUntouched(ws_log[i + 1])

\* C14 (as claimed): a call that finds a worktree with zero commits beyond
\* main ends, whatever the remove and delete steps did, with the path returned
\* for a fresh worktree on a new branch created from the requested base
\* (git being able to create a worktree).
ZeroCommitAlwaysRecreated ==
    \A i \in DOMAIN ws_log :
        (FoundZeroCommits(ws_log[i]) /\ ws_log[i].add_ok)
        => /\ ws_log[i].call.result = "path"
           /\ ws_log[i].call.branch_created
           /\ ws_log[i].call.repo = FreshWorktree(issue_base)

\* C15 (as claimed): a call that finds a worktree with commits and uncommitted
\* changes raises the blocking error and leaves worktree, branch and changes
\* as they were.
DirtyCommittedBlocks ==
    \A i \in DOMAIN ws_log :
        (FoundCommitted(ws_log[i]) /\ ws_log[i].before.dirty)
        => /\ ws_log[i].call.result = "ValueError"
           /\ ws_log[i].call.repo = ws_log[i].before

RemovedOnlyWithZeroCommits ==
    \A i \in DOMAIN ws_log :
        (ws_log[i].before.dir /\ (ws_log[i].call.removed \/ ws_log[i].call.branch_deleted))
        => CommitsBeyondMain(ws_log[i].before) = 0


(***************************************************************************)
(* Properties of the plan model (checked under PlanModelSpec).             *)
(***************************************************************************)
Dependencies(p, n) == IssueByNumber(p, n).dependencies

\* Following the single dependency of n upwards ends at an issue without one.
RECURSIVE ReachesRoot(_, _, _)
ReachesRoot(p, n, fuel) ==
    IF Dependencies(p, n) = {} THEN TRUE
    ELSE IF fuel = 0 THEN FALSE
    ELSE ReachesRoot(p, CHOOSE d \in Dependencies(p, n) : TRUE, fuel - 1)

\* A dependency forest: at most one dependency each, all of them issues of
\* the plan, no cycle.
IsForest(p) ==
    /\ \A n \in IssueNumbers(p) :
          Cardinality(Dependencies(p, n)) <= 1 /\ Dependencies(p, n) \subseteq IssueNumbers(p)
    /\ \A n \in IssueNumbers(p) : ReachesRoot(p, n, Len(p.issues))

\* Where issue n stands in the returned chains.
Positions(n) ==
    {ck \in {<<c, k>> : c \in DOMAIN chains, k \in 1..Len(plan.issues)} :
        ck[2] \in DOMAIN chains[ck[1]] /\ chains[ck[1]][ck[2]] = n}

ChainsReturned == "get_dependency_chains" \in pm_called

\* C17: for a dependency forest, every issue of the plan stands at exactly one
\* position of the chains get_dependency_chains returns, and in its chain
\* behind the issue it depends on.
ChainsPartitionForest ==
    (ChainsReturned /\ IsForest(plan)) =>
        /\ \A n \in IssueNumbers(plan) : Cardinality(Positions(n)) = 1
        /\ \A c \in DOMAIN chains : \A k \in DOMAIN chains[c] :
              /\ chains[c][k] \in IssueNumbers(plan)
              /\ \A d \in Dependencies(plan, chains[c][k]) :
                    \E j \in 1..(k - 1) : chains[c][j] = d

\* A forest of two trees, one of them a parent with a child.
ChainsPartitionForestWitness ==
    /\ ChainsReturned /\ IsForest(plan)
    /\ Len(chains) = 2
    /\ \E c \in DOMAIN chains : Len(chains[c]) = 2

\* C18 (as claimed): in every chain get_dependency_chains returns for a
\* dependency forest, each issue after the first depends directly on the issue
\* just before it (101 with the dependents 102 and 103 gives the chains
\* [101, 102] and [101, 103]).
ChainsAreLinear ==
    (ChainsReturned /\ IsForest(plan)) =>
        \A c \in DOMAIN chains : \A k \in DOMAIN chains[c] :
            k > 1 => chains[c][k - 1] \in Dependencies(plan, chains[c][k])

\* C19 (as claimed): an issue one of whose dependencies is not an issue of the
\* plan is not left out of the chains (get_dependency_chains has no way to
\* report an error: it returns chains for every plan).
MissingDependencySurfaced ==
    ChainsReturned =>
        \A n \in IssueNumbers(plan) :
            ~(Dependencies(plan, n) \subseteq IssueNumbers(plan)) => Positions(n) # {}

\* C20 (as claimed): get_phase_order returns phase_i before phase_j whenever
\* i < j, and so no issue is in an earlier phase of the order than an issue it
\* depends on.
PhasesInSequence ==
    "get_phase_order" \in pm_called =>
        /\ \A a \in DOMAIN phase_order : \A b \in DOMAIN phase_order :
              phase_order[a] < phase_order[b] => a < b
        /\ \A n \in IssueNumbers(plan) :
              \A d \in Dependencies(plan, n) \cap IssueNumbers(plan) :
                  PhasePos(plan, d) <= PhasePos(plan, n)

(***************************************************************************)
(* Properties of launch_tdd_workflow (checked under LaunchSpec).           *)
(***************************************************************************)
\* The tree holds nothing but allow-listed transient files.
TreeClean == \A f \in status_files : is_temp(f)

\* C21: a session that made no commit beyond the base reference of its
\* worktree is returned as a failed WorkflowResult, whether or not the base
\* reference carries commits.
NoNewCommitsFails ==
    (launch_pc = "returned" /\ new_commits = 0) => ~launch_result.success

\* C22: success is returned only if the session lasted MinDuration seconds,
\* the log shows commits and the tree is clean apart from transient files and
\* committed documentation; a failed validation carries a reason; a
\* documentation file left uncommitted is listed in the reason.
ValidatedSuccess ==
    (launch_pc = "returned" /\ ~launch_result.raised) =>
        /\ launch_result.success =>
              /\ launch_result.duration >= MinDuration
              /\ base_log + new_commits > 0
              /\ TreeClean
        /\ ~launch_result.success => launch_result.error # ""
        /\ launch_result.error = "Workflow validation failed: Uncommitted changes detected" =>
              \A f \in status_files :
                  (is_test_doc(f) /\ ~is_temp(f)) => f \in launch_result.problematic

\* C38: a session whose final ResultMessage reported an error is returned as
\* a failed WorkflowResult, whatever the validation found.
AgentErrorFails ==
    (launch_pc = "returned" /\ launch_result.is_error) => ~launch_result.success

(***************************************************************************)
(* Properties of the discovery of change requests (checked under           *)
(* DiscoverSpec).                                                          *)
(***************************************************************************)
\* C25 (as claimed): a change request that is a draft on the hosting service
\* is not tracked: the monitor tracks a change request only once it is
\* published, and leaves out a draft whose publish call fails.
DraftsNeverTracked ==
    \A n \in DOMAIN issue_pr : issue_pr[n] # None => n \notin host_drafts

(***************************************************************************)
(* Properties of run_complete_epic (checked under Spec).                   *)
(***************************************************************************)
EpicReturned == epic_pc \in {"returned_true", "returned_false"}

\* The monitor task is at one of its awaits, or about to poll.
MonitorRunning == mon_pc \in {"poll", "sleep", "fixing"}

\* C26 (as claimed): once the monitor task was started, run_complete_epic
\* does not return while it is running: on every exit path the task has been
\* cancelled and awaited (or has ended by itself), and none of its fix
\* sessions is left pending or in flight.
MonitorStoppedOnReturn ==
    EpicReturned =>
        /\ ~MonitorRunning
        /\ Indices(fix_state, "pending") \cup Indices(fix_state, "running") = {}

\* Clean or Exhausted: the monitor has nothing left to do for the request.
Settled(pr) == pr \in addressed \/ MaxAttemptsReached(fix_attempts, pr)

\* C27 (as claimed, checked under FreshEpicSpec): when run_complete_epic
\* finishes after all phases succeeded, every change request that was created
\* during the run for an issue whose session succeeded is tracked by the
\* monitor and is Clean or Exhausted (not Unchecked, NeedsFix or FixInFlight).
SupervisedUntilSettled ==
    epic_pc = "returned_true" =>
        \A n \in host_prs \cap DOMAIN session_result :
            session_result[n] =>
                /\ issue_pr[n] # None
                /\ Settled(issue_pr[n])

\* What a later load of the plan document yields for issue n.
LoadedIssue(n) == load_plan(plan_file).issues[n]

\* C28 (as claimed): after run_complete_epic has finished, the plan document
\* loads, and for every issue whose WorkflowResult is successful and carries a
\* change-request id the loaded document shows that id and a status other
\* than pending.
OutcomesPersisted ==
    EpicReturned =>
        \A n \in DOMAIN results :
            (results[n].success /\ results[n].pr_number # None) =>
                /\ load_plan(plan_file).result = "plan"
                /\ LoadedIssue(n).pr_number = results[n].pr_number
                /\ LoadedIssue(n).status # "pending"

(***************************************************************************)
(* Properties of the persisted documents (checked under CleanupSpec and    *)
(* LoadSpec).                                                              *)
(***************************************************************************)
\* C29 (as claimed): once the cleanup command has removed an issue's
\* worktree, the documents no longer record the path: the state document
\* has it cleared, and a later load of the plan does not yield it.
CleanedPathCleared ==
    \A n \in cleaned_up :
        /\ ~state_file.worktree_path[n]
        /\ n \notin MonitorWorktrees

\* The plan document is missing or malformed: it does not exist, or is not
\* JSON, or is a JSON object without one of the required top-level fields.
MissingOrMalformed(doc) ==
    \/ doc.kind \in {"absent", "invalid_json"}
    \/ doc.kind = "object" /\ PlanFields \ doc.fields # {}

TrackingFailureNotFatal ==
    (gt_call.created /\ gt_call.gt # "exit_0") =>
        /\ gt_call.tracked = "None"
        /\ gt_call.result = "path"

(***************************************************************************)
(* Properties of update_issue_status (checked under StatusSpec).           *)
(***************************************************************************)
\* C32: after update_issue_status on a document that holds the issue, the
\* call has returned True, the document records the new status for the issue
\* and every other issue is as before; after a call for a missing document
\* or issue, it has returned False and the document is as before.
StatusUpdatePersisted ==
    status_call.called =>
        LET before == status_call.before
            n == status_call.issue
        IN  IF before.exists /\ n \in DOMAIN before.status
            THEN /\ status_call.result
                 /\ state_file.exists
                 /\ state_file.status[n] = status_call.status
                 /\ \A m \in DOMAIN before.status \ {n} :
                       /\ state_file.status[m] = before.status[m]
                       /\ state_file.worktree_path[m] = before.worktree_path[m]
            ELSE /\ ~status_call.result
                 /\ state_file = before

(***************************************************************************)
(* Properties of the plan's base references (checked under StackSpec).     *)
(***************************************************************************)
\* C33: every worktree made for the plan has the base reference the
\* invariant asks for: trunk for an issue without dependencies, the branch
\* of one of its dependencies otherwise.
BaseReferenceInvariant ==
    \A n \in DOMAIN stack_worktrees :
        IF stack_plan[n].dependencies = {}
        THEN stack_worktrees[n] = "main"
        ELSE stack_worktrees[n] \in {BranchOf(d) : d \in stack_plan[n].dependencies}

(***************************************************************************)
(* Properties of the result of run_complete_epic (checked under Spec).     *)
(***************************************************************************)
\* C34: when run_complete_epic has returned True, every issue of the plan has
\* a successful result: its session succeeded or its change request existed.
TrueMeansEveryIssueSucceeded ==
    epic_pc = "returned_true" =>
        \A n \in IssueNumbers(plan) : n \in DOMAIN results /\ results[n].success

(***************************************************************************)
(* Properties of verify_and_fix_pr_base_branches (checked under            *)
(* VerifySpec).                                                            *)
(***************************************************************************)
\* The issues whose change request the plan document records.
RecordedPrs ==
    LET loaded == load_plan(plan_file)
    IN  {n \in DOMAIN loaded.issues : loaded.issues[n].pr_number # None}

\* C35: a call that returned True left every change request of the plan on the
\* base the plan expects, and no check or correction of the call failed.
VerifiedBasesCorrect ==
    (verify_call.called /\ verify_call.result = "True") =>
        /\ \A n \in RecordedPrs : verify_call.bases[n] = expected_base(plan, n)
        /\ verify_call.failed = {}

(***************************************************************************)
(* Properties of the sessions of a run (checked under FreshEpicSpec).      *)
(***************************************************************************)
\* C36: no fix session runs in the worktree of an issue while the development
\* session of that issue is running there.
OneSessionPerWorktree ==
    \A k \in DOMAIN tdd_state, j \in DOMAIN fix_state :
        ~ /\ tdd_state[k] = "running"
          /\ fix_state[j] = "running"
          /\ phase_tasks[k] = prs_needing_fixes[j][1]

(***************************************************************************)
(* Properties of the monitor without change requests (checked under Spec). *)
(***************************************************************************)
\* C39: a poll after which no change request is tracked dispatches no fix
\* session and goes to sleep, and the sleep of a monitor that tracks none ends
\* in the next poll; only the cancellation of the task ends the loop.
IdleMonitorKeepsPolling ==
    [][/\ (mon_pc = "poll" /\ mon_pc' # "poll" /\ TrackedPrs' = {}) =>
            /\ mon_pc' \in {"sleep", "cancelled"}
            /\ fix_state' = fix_state
            /\ prs_needing_fixes' = prs_needing_fixes
       /\ (mon_pc = "sleep" /\ mon_pc' # "sleep" /\ TrackedPrs = {}) =>
            mon_pc' \in {"poll", "cancelled"}]_vars

\* The monitor sleeps after a poll that found no change request to track,
\* although one is open on the hosting service.
IdleMonitorKeepsPollingWitness ==
    /\ mon_pc = "sleep"
    /\ TrackedPrs = {}
    /\ host_prs # {}
    /\ epic_pc = "developing"

(***************************************************************************)
(* Properties of monitor_epic_by_discovery (checked under                  *)
(* ByDiscoverySpec).                                                       *)
(***************************************************************************)
DiscoveredPrs == {disc_prs[n] : n \in DOMAIN disc_prs}

\* C40: no fix session is dispatched; a request is reported once when a poll
\* has observed a reviewer comment on it and not before; the loop has ended
\* when every discovered request has been observed with a comment, and is
\* still polling while one of them has not.
DiscoveryReportsOnce ==
    /\ fix_state = <<>> /\ prs_needing_fixes = <<>>
    /\ \A pr \in DOMAIN disc_reported : disc_reported[pr] <= 1
    /\ \A pr \in DiscoveredPrs :
          pr \in disc_seen <=> (pr \in DOMAIN disc_reported /\ disc_reported[pr] = 1)
    /\ DiscoveredPrs # {} =>
          (disc_pc = "returned" <=> DiscoveredPrs \subseteq disc_seen)

\* The loop sleeps after its second poll or a later one: one request was
\* reported while another still has no comment.
DiscoveryReportsOnceWitness ==
    /\ disc_pc = "sleep"
    /\ disc_poll_count > 1
    /\ disc_seen # {}
    /\ DiscoveredPrs \ disc_seen # {}

====
